---------------------------- MODULE Spec2Model ----------------------------
(***************************************************************************)
(* A model of the TimeTrackingBolt client: the useAuth hook and sign-in,   *)
(* the role-gated navigation of Layout, and the TimeTracking week view     *)
(* (week range, fetchData, saveTimeEntry, deleteTimeEntry, the entry       *)
(* forms).                                                                 *)
(*                                                                         *)
(* Representation.                                                         *)
(*   - A JavaScript Date is [day, ms]: the local calendar day counted from *)
(*     1970-01-01 and the milliseconds since local midnight.               *)
(*   - A 'yyyy-MM-dd' string is the tuple <<year, month, day>>; strings of *)
(*     that shape order as their tuples do.                                *)
(*   - An 'HH:MM' string is the tuple <<hours, minutes>>.                  *)
(*   - An hours value (a JavaScript number) is held in sixtieths of an     *)
(*     hour: 90 stands for 1.5.  Every duration of two HH:MM times is a    *)
(*     whole number of sixtieths.                                          *)
(***************************************************************************)
EXTENDS Integers, Sequences, FiniteSets, TLC

VARIABLES
    \* ---- useAuth / App / Layout / AuthForm --------------------------------
    usersTable,      \* backend table users
    linksSent,       \* emails a login link was sent to (signInWithOtp)
    session,         \* the email of the identity provider's session, "" when none
    user,            \* useAuth's user state, per hook instance
    authLoading,     \* useAuth's loading state, per hook instance
    signInCall,      \* the signIn call in flight: its position and arguments
    lookups,         \* checkSession / auth-event handlers awaiting the backend
    authToast,       \* the last toast raised by useAuth
    currentView,     \* App's useState('timetracking')
    \* ---- TimeTracking ----------------------------------------------------
    ttUser,          \* the user TimeTracking's useAuth resolved, or NoUser
    currentWeek,     \* useState(new Date())
    timeEntries,     \* useState<TimeEntry[]>([])
    projects,        \* useState<Project[]>([])
    tasks,           \* useState<Task[]>([])
    loading,         \* useState(true)
    editingEntry,    \* useState<string | null>(null)
    newEntry,        \* the new-entry draft, or NoDraft
    formData,        \* TimeEntryCard's formData, per mounted card (entry id)
    dbEntries,       \* backend table time_entries
    fetches,         \* fetchData calls in flight, in the order they were issued
    writes,          \* saveTimeEntry / deleteTimeEntry calls awaiting the backend
    nextId,          \* the id the backend gives the next inserted row
    toast,           \* the last toast raised by TimeTracking
    ops,             \* number of user gestures and backend failures so far
    \* ---- Projects -------------------------------------------------------
    pjProjects,      \* Projects' useState<Project[]>([])
    pjTasks,         \* Projects' useState<Task[]>([])
    pjLoading,       \* Projects' useState(true)
    editingProject,  \* useState<string | null>(null)
    showNewProject,  \* useState(false)
    selectedProject, \* useState<string | null>(null)
    showNewTask,     \* useState(false)
    projectForm,     \* ProjectForm's formData, per mounted form ("" is the new-project form)
    taskForm,        \* TaskForm's formData, per mounted form (project id)
    projectsTable,   \* backend table projects
    tasksTable,      \* backend table tasks
    pjCalls,         \* Projects' backend calls in flight, in the order they were issued
    pjNextId,        \* the number of rows the backend has created, plus one
    pjToast,         \* the last toast raised by Projects
    pjOps,           \* number of user gestures and backend failures on the page so far
    \* ---- pure functions applied to drawn inputs --------------------------
    call             \* the last application of a pure function: arguments and result

authVars == <<usersTable, linksSent, session, user, authLoading, signInCall, lookups,
              authToast, currentView>>
ttVars == <<ttUser, currentWeek, timeEntries, projects, tasks, loading, editingEntry,
            newEntry, formData, dbEntries, fetches, writes, nextId, toast, ops>>
pjVars == <<pjProjects, pjTasks, pjLoading, editingProject, showNewProject,
            selectedProject, showNewTask, projectForm, taskForm, projectsTable,
            tasksTable, pjCalls, pjNextId, pjToast, pjOps>>
vars == <<authVars, ttVars, pjVars, call>>

-----------------------------------------------------------------------------
(* Bounds of the model *)

\* Weeks the reference date can be moved away from the initial week, each way.
MaxWeekShift == 1
\* User gestures and backend failures in one behaviour of the week view.
MaxOps == 5
\* fetchData calls in flight at once.
MaxFetches == 2
\* Writes awaiting the backend at once.
MaxWrites == 2
\* Rows the time_entries table can hold.
MaxRows == 2
\* Days either side of the base day drawn as reference dates for the pure functions.
DaySpan == 17
\* Entries in the lists the day aggregates are applied to.
MaxListLen == 3
\* signIn calls in one behaviour.
MaxSignIns == 1
\* checkSession calls and auth-event handlers awaiting the backend at once.
MaxLookups == 2
\* User gestures and backend failures in one behaviour of the Projects page.
MaxPjOps == 5
\* Backend calls of the Projects page in flight at once.
MaxPjCalls == 3
\* Rows the backend creates for the Projects page, the stored ones included.
MaxPjRows == 2

-----------------------------------------------------------------------------
(* Dates: what the JavaScript Date and date-fns calls of the source compute *)

MsPerMinute == 60 * 1000
MsPerHour == 1000 * 60 * 60
MsPerDay == 24 * MsPerHour

\* Days from 1970-01-01 of a civil date (proleptic Gregorian calendar).
DaysFromCivil(y, m, d) ==
    LET yy  == IF m <= 2 THEN y - 1 ELSE y
        era == yy \div 400
        yoe == yy - era * 400
        mp  == IF m > 2 THEN m - 3 ELSE m + 9
        doy == (153 * mp + 2) \div 5 + d - 1
        doe == yoe * 365 + yoe \div 4 - yoe \div 100 + doy
    IN  era * 146097 + doe - 719468

\* The civil date <<y, m, d>> of a day number.
CivilFromDays(z0) ==
    LET z   == z0 + 719468
        era == z \div 146097
        doe == z - era * 146097
        yoe == (doe - doe \div 1460 + doe \div 36524 - doe \div 146096) \div 365
        doy == doe - (365 * yoe + yoe \div 4 - yoe \div 100)
        mp  == (5 * doy + 2) \div 153
        d   == doy - (153 * mp + 2) \div 5 + 1
        m   == IF mp < 10 THEN mp + 3 ELSE mp - 9
        y   == yoe + era * 400
    IN  <<IF m <= 2 THEN y + 1 ELSE y, m, d>>

\* Date.prototype.getDay: 0 is Sunday; 1970-01-01 was a Thursday.
getDay(date) == (date.day + 4) % 7

\* a.getTime() - b.getTime(), for dates less than 24 days apart (the model's
\* integers are 32 bits wide; the program's numbers are not).
msBetween(a, b) == (a.day - b.day) * MsPerDay + (a.ms - b.ms)

\* a.getTime() <= b.getTime()
DateLeq(a, b) == a.day < b.day \/ (a.day = b.day /\ a.ms <= b.ms)

\* format(date, 'yyyy-MM-dd')
format(date) == CivilFromDays(date.day)

\* Order of two 'yyyy-MM-dd' strings (string order, which is the date order).
DateStrLeq(a, b) ==
    \/ a[1] < b[1]
    \/ (a[1] = b[1] /\ a[2] < b[2])
    \/ (a[1] = b[1] /\ a[2] = b[2] /\ a[3] <= b[3])

\* startOfWeek(date, { weekStartsOn }): back to the week's first day, 00:00:00.000.
startOfWeek(date, weekStartsOn) ==
    LET day  == getDay(date)
        diff == (IF day < weekStartsOn THEN 7 ELSE 0) + day - weekStartsOn
    IN  [day |-> date.day - diff, ms |-> 0]

\* endOfWeek(date, { weekStartsOn }): on to the week's last day, 23:59:59.999.
endOfWeek(date, weekStartsOn) ==
    LET day  == getDay(date)
        diff == (IF day < weekStartsOn THEN -7 ELSE 0) + 6 - (day - weekStartsOn)
    IN  [day |-> date.day + diff, ms |-> MsPerDay - 1]

\* addWeeks(date, n) / subWeeks(date, n): n * 7 calendar days, the time of day kept.
addWeeks(date, n) == [date EXCEPT !.day = @ + n * 7]
subWeeks(date, n) == addWeeks(date, -n)

\* The week the component renders for a reference date.
weekStartMutSunday(cw) == startOfWeek(cw, 0)
weekStart(cw) == startOfWeek(cw, 1)
weekEnd(cw) == endOfWeek(cw, 1)

\* eachDayOfInterval({ start: weekStart, end: weekEnd }): the days, each at 00:00.
weekDays(cw) ==
    [i \in 1..(weekEnd(cw).day - weekStart(cw).day + 1) |->
        [day |-> weekStart(cw).day + i - 1, ms |-> 0]]

\* The week-navigation buttons' new reference date.
previousWeekMutSix(cw) == [cw EXCEPT !.day = @ - 6]
previousWeek(cw) == subWeeks(cw, 1)
nextWeek(cw) == addWeeks(cw, 1)

-----------------------------------------------------------------------------
(* Durations and day aggregates *)

\* parseISO(`2000-01-01T${time}:00`) for an HH:MM time.
parseTime(time) ==
    [day |-> DaysFromCivil(2000, 1, 1), ms |-> (time[1] * 60 + time[2]) * MsPerMinute]

\* calculateHours: (end.getTime() - start.getTime()) / (1000 * 60 * 60), in
\* sixtieths of an hour.
calculateHoursMutSwapped(startTime, endTime) ==
    msBetween(parseTime(startTime), parseTime(endTime)) \div (MsPerHour \div 60)
calculateHours(startTime, endTime) ==
    msBetween(parseTime(endTime), parseTime(startTime)) \div (MsPerHour \div 60)

\* getEntriesForDay(date), over an entry list.
getEntriesForDayMutNoFilter(entries, date) == entries
getEntriesForDay(entries, date) ==
    LET dateStr == format(date)
        Match(entry) == entry.date = dateStr
    IN  SelectSeq(entries, Match)

\* reduce((total, entry) => total + entry.hours, 0)
RECURSIVE ReduceHours(_, _)
ReduceHours(list, total) ==
    IF list = <<>> THEN total
    ELSE ReduceHours(Tail(list), total + Head(list).hours)

\* getTotalHoursForDay(date), over an entry list.
getTotalHoursForDay(entries, date) == ReduceHours(getEntriesForDay(entries, date), 0)

-----------------------------------------------------------------------------
(* Sequences *)

SeqToSet(list) == { list[i] : i \in 1..Len(list) }

\* Remove the i-th element of a sequence.
RemoveAt(list, i) == SubSeq(list, 1, i - 1) \o SubSeq(list, i + 1, Len(list))

-----------------------------------------------------------------------------
(* useAuth, App's choice of what to render, and Layout's navigation *)

\* The absent user (user = null).
NoUser == [id |-> "", email |-> "", name |-> "", role |-> ""]

\* Backend table authorized_emails, which the application only reads.
AuthorizedEmails ==
    { [email |-> "m@x", role |-> "manager"],
      [email |-> "s@x", role |-> "supervisor"],
      [email |-> "u@x", role |-> "user"] }

\* Emails typed into AuthForm ("z@x" has no allow-list entry), and names.
Emails == { "m@x", "s@x", "u@x", "z@x" }
Names == { "", "Ann" }

\* A users row stored before the session, for an email no longer on the allow-list.
FormerUser == [id |-> "z@x", email |-> "z@x", name |-> "zed", role |-> "manager"]

\* The components that call useAuth(), each with a state of its own.
Hooks == { "App", "AuthForm", "Layout" }

\* App's render: the spinner while loading, AuthForm without a user, else Layout
\* around the current view.
renderedMutLayoutWithoutUser(usr, isLoading) ==
    IF isLoading["App"] THEN {"App"} ELSE {"App", "Layout"}
rendered(usr, isLoading) ==
    IF isLoading["App"] THEN {"App"}
    ELSE IF usr["App"] = NoUser THEN {"App", "AuthForm"}
    ELSE {"App", "Layout"}

Mounted == rendered(user, authLoading)

\* Layout's navigation, as the ids of its items.
navigationMutAnalyticsForAll(usr) ==
    <<"timetracking", "projects", "analytics">>
        \o (IF usr.role = "manager" THEN <<"management">> ELSE << >>)
navigation(usr) ==
    <<"timetracking", "projects">>
        \o (IF usr.role = "supervisor" \/ usr.role = "manager"
            THEN <<"analytics">> ELSE << >>)
        \o (IF usr.role = "manager" THEN <<"management">> ELSE << >>)

\* The hooks' state after App rendered with (usr, isLoading, pending): a component
\* that mounts starts with user null, loading true and checkSession at its await; a
\* component that unmounts loses its state, and what it awaited no longer acts.
authRender(usr, isLoading, pending) ==
    LET now == rendered(usr, isLoading)
        fresh == now \ Mounted
        kept(l) == l.hook \in now
        starts == [h \in fresh |-> [hook |-> h, pc |-> "getSession", email |-> ""]]
        RECURSIVE AsSeq(_)
        AsSeq(hs) == IF hs = {} THEN << >>
                     ELSE LET h == CHOOSE x \in hs : TRUE
                          IN  <<starts[h]>> \o AsSeq(hs \ {h})
    IN  [user |-> [h \in Hooks |-> IF h \in now /\ h \notin fresh THEN usr[h] ELSE NoUser],
         loading |-> [h \in Hooks |-> IF h \in now /\ h \notin fresh
                                       THEN isLoading[h] ELSE TRUE],
         lookups |-> SelectSeq(pending, kept) \o AsSeq(fresh)]

\* A step of useAuth: the hooks' state after it, rendered.
AuthStep(usr, isLoading, pending) ==
    LET r == authRender(usr, isLoading, pending)
    IN  /\ user' = r.user
        /\ authLoading' = r.loading
        /\ lookups' = r.lookups
        /\ UNCHANGED <<ttVars, pjVars, call>>

\* checkSession: getSession returns; with a session fetchUserProfile is awaited,
\* without one the finally sets loading false.
GetSessionReturns(i) ==
    LET l == lookups[i] IN
    /\ l.pc = "getSession"
    /\ IF session # ""
       THEN AuthStep(user, authLoading,
                     [lookups EXCEPT ![i] = [hook |-> l.hook, pc |-> "profile",
                                             email |-> session]])
       ELSE AuthStep(user, [authLoading EXCEPT ![l.hook] = FALSE], RemoveAt(lookups, i))
    /\ UNCHANGED <<usersTable, linksSent, session, signInCall, authToast, currentView>>

\* select('*').eq('email', email).single() on users: the row, or an error when
\* there is not exactly one.
selectUser(table, email) ==
    IF \E r \in table : r.email = email
    THEN [data |-> CHOOSE r \in table : r.email = email, error |-> FALSE]
    ELSE [data |-> NoUser, error |-> TRUE]

\* fetchUserProfile returns to checkSession or to the SIGNED_IN handler: setUser of
\* the row (null on an error), then setLoading(false).
ProfileReturns(i) ==
    LET l == lookups[i]
        res == selectUser(usersTable, l.email)
    IN  /\ l.pc = "profile"
        /\ AuthStep([user EXCEPT ![l.hook] = IF res.error THEN NoUser ELSE res.data],
                    [authLoading EXCEPT ![l.hook] = FALSE], RemoveAt(lookups, i))
        /\ UNCHANGED <<usersTable, linksSent, session, signInCall, authToast, currentView>>

\* The users read of fetchUserProfile fails: setUser(null), then setLoading(false).
ProfileFails(i) ==
    LET l == lookups[i] IN
    /\ l.pc = "profile"
    /\ AuthStep([user EXCEPT ![l.hook] = NoUser],
                [authLoading EXCEPT ![l.hook] = FALSE], RemoveAt(lookups, i))
    /\ UNCHANGED <<usersTable, linksSent, session, signInCall, authToast, currentView>>

\* The login link sent to an email is followed: the provider holds a session and
\* emits SIGNED_IN, whose handler awaits fetchUserProfile in every mounted hook.
FollowLink(email) ==
    LET RECURSIVE Handlers(_)
        Handlers(hs) == IF hs = {} THEN << >>
                        ELSE LET h == CHOOSE x \in hs : TRUE
                             IN  <<[hook |-> h, pc |-> "profile", email |-> email]>>
                                     \o Handlers(hs \ {h})
    IN  /\ email \in linksSent
        /\ session # email
        /\ Len(lookups) + Cardinality(Mounted) <= MaxLookups
        /\ session' = email
        /\ AuthStep(user, authLoading, lookups \o Handlers(Mounted))
        /\ UNCHANGED <<usersTable, linksSent, signInCall, authToast, currentView>>

\* Layout's sign-out button: the provider drops the session and emits SIGNED_OUT
\* (setUser(null), setLoading(false) in every mounted hook), then setUser(null).
SignOut ==
    /\ "Layout" \in Mounted
    /\ session' = ""
    /\ authToast' = "Signed out successfully"
    /\ AuthStep([h \in Hooks |-> IF h \in Mounted THEN NoUser ELSE user[h]],
                [h \in Hooks |-> IF h \in Mounted THEN FALSE ELSE authLoading[h]],
                lookups)
    /\ UNCHANGED <<usersTable, linksSent, signInCall, currentView>>

\* The ids App's renderCurrentView tells apart.
Views == { "timetracking", "projects", "analytics", "management" }

\* What renderCurrentView returns for a value of currentView.
renderCurrentView(view) ==
    CASE view = "timetracking" -> "TimeTracking"
      [] view = "projects" -> "Projects"
      [] view = "analytics" -> "Analytics coming soon..."
      [] view = "management" -> "User Management coming soon..."
      [] OTHER -> "TimeTracking"

\* A button of Layout's navigation: onViewChange(item.id), that is setCurrentView.
ViewChange(view) ==
    /\ "Layout" \in Mounted
    /\ \E k \in DOMAIN navigation(user["Layout"]) : navigation(user["Layout"])[k] = view
    /\ currentView' = view
    /\ UNCHANGED <<usersTable, linksSent, session, user, authLoading, signInCall,
                   lookups, authToast, ttVars, pjVars, call>>

-----------------------------------------------------------------------------
(* signIn *)

\* No signIn call made yet.
NoSignIn == [pc |-> "idle", email |-> "", name |-> "", role |-> "", result |-> FALSE, n |-> 0]

\* select('*').eq('email', email).single() on authorized_emails.
selectAuthorized(email) ==
    IF \E a \in AuthorizedEmails : a.email = email
    THEN [data |-> CHOOSE a \in AuthorizedEmails : a.email = email, error |-> FALSE]
    ELSE [data |-> [email |-> "", role |-> ""], error |-> TRUE]

\* authError || !authorized
notAuthorizedMutNever(res) == FALSE
notAuthorized(res) == res.error \/ res.data.email = ""

\* name || email.split('@')[0]
profileName(name, email) ==
    IF name # "" THEN name
    ELSE CASE email = "m@x" -> "m" [] email = "s@x" -> "s" [] email = "u@x" -> "u"
           [] OTHER -> "z"

\* upsert({ email, name, role }) on users: the row of that email replaced or added.
upsertUser(table, email, name, role) ==
    { r \in table : r.email # email }
        \cup { [id |-> email, email |-> email, name |-> name, role |-> role] }

\* A step of signIn leaves the hooks' users and what they await alone.
SignInFrame == UNCHANGED <<session, user, lookups, currentView, ttVars, pjVars, call>>

\* signIn returns: the finally sets loading false in AuthForm's hook, if mounted.
signInDone(result) ==
    /\ signInCall' = [signInCall EXCEPT !.pc = "done", !.result = result]
    /\ authLoading' = [authLoading EXCEPT
                         !["AuthForm"] = IF "AuthForm" \in Mounted THEN FALSE ELSE @]

\* AuthForm's submit: signIn(email.trim(), name.trim()) up to its first await.
SignInSubmit(email, name) ==
    /\ "AuthForm" \in Mounted
    /\ signInCall.pc \in {"idle", "done"}
    /\ signInCall.n < MaxSignIns
    /\ signInCall' = [pc |-> "authorized", email |-> email, name |-> name, role |-> "",
                      result |-> FALSE, n |-> signInCall.n + 1]
    /\ authLoading' = [authLoading EXCEPT !["AuthForm"] = TRUE]
    /\ UNCHANGED <<usersTable, linksSent, authToast>>
    /\ SignInFrame

\* The allow-list read returns: without an entry the toast and false; with one the
\* login link is requested.
AuthorizedReturns ==
    LET res == selectAuthorized(signInCall.email) IN
    /\ signInCall.pc = "authorized"
    /\ IF notAuthorized(res)
       THEN /\ authToast' = "Email not authorized. Please contact your manager."
            /\ signInDone(FALSE)
       ELSE /\ signInCall' = [signInCall EXCEPT !.pc = "otp", !.role = res.data.role]
            /\ UNCHANGED <<authLoading, authToast>>
    /\ UNCHANGED <<usersTable, linksSent>>
    /\ SignInFrame

\* The allow-list read fails (authError): the same toast and false.
AuthorizedFails ==
    /\ signInCall.pc = "authorized"
    /\ authToast' = "Email not authorized. Please contact your manager."
    /\ signInDone(FALSE)
    /\ UNCHANGED <<usersTable, linksSent>>
    /\ SignInFrame

\* signInWithOtp returns without an error: the link was sent; the upsert is sent.
OtpReturns ==
    /\ signInCall.pc = "otp"
    /\ linksSent' = linksSent \cup {signInCall.email}
    /\ signInCall' = [signInCall EXCEPT !.pc = "upsert"]
    /\ UNCHANGED <<usersTable, authLoading, authToast>>
    /\ SignInFrame

\* signInWithOtp returns an error: the catch.
OtpFails ==
    /\ signInCall.pc = "otp"
    /\ authToast' = "Failed to sign in"
    /\ signInDone(FALSE)
    /\ UNCHANGED <<usersTable, linksSent>>
    /\ SignInFrame

\* The upsert returns without an error: the success toast and true.
UpsertReturns ==
    /\ signInCall.pc = "upsert"
    /\ usersTable' = upsertUser(usersTable, signInCall.email,
                                profileName(signInCall.name, signInCall.email),
                                signInCall.role)
    /\ authToast' = "Check your email for the login link!"
    /\ signInDone(TRUE)
    /\ UNCHANGED <<linksSent>>
    /\ SignInFrame

\* The upsert returns an error: the catch.
UpsertFails ==
    /\ signInCall.pc = "upsert"
    /\ authToast' = "Failed to sign in"
    /\ signInDone(FALSE)
    /\ UNCHANGED <<usersTable, linksSent>>
    /\ SignInFrame

-----------------------------------------------------------------------------
(* The week view's data *)

\* The user TimeTracking's useAuth resolves.
TheUser == [id |-> "u1", email |-> "c@x", name |-> "c", role |-> "user"]

\* Backend tables projects and tasks, as select('*').order('name') returns them.
DbProjects ==
    << [id |-> "p1", name |-> "alpha", client |-> "acme"],
       [id |-> "p2", name |-> "beta", client |-> "acme"] >>
DbTasks == << [id |-> "t1", name |-> "build", project_id |-> "p1"] >>

\* Values the form controls are given.
StartTimes == { <<9, 0>>, <<10, 0>> }
EndTimes == { <<10, 0>>, <<10, 30>> }
Descriptions == { "", "note" }
\* Columns of the week grid whose + button is used (Monday and Sunday).
NewEntryColumns == {1, 7}

\* new Date() when the component mounts: Wednesday 2025-01-01, 08:30.
InitialNow == [day |-> DaysFromCivil(2025, 1, 1), ms |-> 8 * MsPerHour + 30 * MsPerMinute]

\* A time_entries row.  task_id "null" is SQL null; id 0 stands for no id.
Row(id, userId, projectId, taskId, date, startTime, endTime, hours, description) ==
    [id |-> id, user_id |-> userId, project_id |-> projectId, task_id |-> taskId,
     date |-> date, start_time |-> startTime, end_time |-> endTime, hours |-> hours,
     description |-> description]

\* A row stored before the session, by a client that wrote its own hours value.
StoredRow ==
    Row(1, TheUser.id, "p1", "t1", format(weekStart(InitialNow)), <<9, 0>>, <<10, 0>>,
        120, "")

\* The absent draft (newEntry = null) and the absent row selection (editingEntry = null).
NoDraft ==
    [date |-> <<0, 0, 0>>, project_id |-> "", task_id |-> "", start_time |-> <<0, 0>>,
     end_time |-> <<0, 0>>, description |-> ""]
NoEntry == 0

\* order('date').order('start_time'): rows by date, then start time (ties by id).
TimeBefore(s, t) == s[1] < t[1] \/ (s[1] = t[1] /\ s[2] < t[2])
RowBefore(a, b) ==
    \/ (a.date # b.date /\ DateStrLeq(a.date, b.date))
    \/ (a.date = b.date /\ TimeBefore(a.start_time, b.start_time))
    \/ (a.date = b.date /\ a.start_time = b.start_time /\ a.id <= b.id)

RECURSIVE Ordered(_)
Ordered(rows) ==
    IF rows = {} THEN <<>>
    ELSE LET first == CHOOSE r \in rows : \A q \in rows : RowBefore(r, q)
         IN  <<first>> \o Ordered(rows \ {first})

\* The time_entries query of fetchData, for a user and a week range.
selectEntriesMutBeforeEnd(db, userId, range) ==
    Ordered({ r \in db : /\ r.user_id = userId
                         /\ DateStrLeq(range[1], r.date)
                         /\ DateStrLeq(r.date, range[2]) /\ r.date # range[2] })
selectEntries(db, userId, range) ==
    Ordered({ r \in db : /\ r.user_id = userId
                         /\ DateStrLeq(range[1], r.date)
                         /\ DateStrLeq(r.date, range[2]) })

\* The range a render's fetchData closes over.
weekRange(cw) == <<format(weekStart(cw)), format(weekEnd(cw))>>

\* The 'yyyy-MM-dd' strings of the rendered columns.
weekDates(cw) == { format(weekDays(cw)[i]) : i \in DOMAIN weekDays(cw) }

\* The entries the grid renders a TimeEntryCard for.
shownEntries(entries, cw) == { e \in SeqToSet(entries) : e.date \in weekDates(cw) }

\* TimeEntryCard's useState initial value.
initialFormData(entry) ==
    [project_id |-> entry.project_id,
     task_id |-> IF entry.task_id = "null" THEN "" ELSE entry.task_id,
     start_time |-> entry.start_time, end_time |-> entry.end_time,
     description |-> entry.description]

\* The cards' state after a render: while loading the spinner replaces the grid and
\* every card unmounts; a card that stays mounted keeps its state; a card that
\* mounts starts from its entry.
renderCards(oldForms, isLoading, entries, cw) ==
    IF isLoading THEN << >>
    ELSE [id \in { e.id : e \in shownEntries(entries, cw) } |->
            IF id \in DOMAIN oldForms THEN oldForms[id]
            ELSE initialFormData(CHOOSE e \in shownEntries(entries, cw) : e.id = id)]

\* tasks.filter(task => task.project_id === project_id)
projectTasksMutAllTasks(taskList, projectId) == taskList
projectTasks(taskList, projectId) ==
    LET Match(task) == task.project_id = projectId
    IN  SelectSeq(taskList, Match)

-----------------------------------------------------------------------------
(* fetchData *)

\* A step of the week view leaves the rest of the application alone.
TTOnly == UNCHANGED <<authVars, pjVars, call>>

\* No row created: the value of a call's created field when no insert issued it.
NoCreated == [id |-> 0, date |-> <<0, 0, 0>>]

\* fetchData() of a render whose closure holds that user and week range: the new
\* values of loading and fetches.  A call in flight is at its first await.  The
\* field created is not program state: it names the row whose insert issued the call.
fetchData(userId, range, created) ==
    IF userId = NoUser.id
    THEN [loading |-> loading, fetches |-> fetches]
    ELSE [loading |-> TRUE,
          fetches |-> Append(fetches, [range |-> range, user_id |-> userId,
                                       pc |-> "projects", created |-> created])]

\* useAuth resolves the user; the effect on [currentWeek, user] runs fetchData.
UserResolved ==
    /\ ttUser = NoUser
    /\ ttUser' = TheUser
    /\ LET r == fetchData(TheUser.id, weekRange(currentWeek), NoCreated)
       IN  /\ loading' = r.loading
           /\ fetches' = r.fetches
    /\ formData' = renderCards(formData, loading', timeEntries, currentWeek)
    /\ UNCHANGED <<currentWeek, timeEntries, projects, tasks, editingEntry, newEntry,
                   dbEntries, writes, nextId, toast, ops>>
    /\ TTOnly

\* The projects read returns: setProjects, then the tasks read is sent.
FetchProjectsOk(i) ==
    /\ fetches[i].pc = "projects"
    /\ projects' = DbProjects
    /\ fetches' = [fetches EXCEPT ![i].pc = "tasks"]
    /\ formData' = renderCards(formData, loading, timeEntries, currentWeek)
    /\ UNCHANGED <<ttUser, currentWeek, timeEntries, tasks, loading, editingEntry,
                   newEntry, dbEntries, writes, nextId, toast, ops>>
    /\ TTOnly

\* The tasks read returns: setTasks, then the time_entries read is sent.
FetchTasksOk(i) ==
    /\ fetches[i].pc = "tasks"
    /\ tasks' = DbTasks
    /\ fetches' = [fetches EXCEPT ![i].pc = "entries"]
    /\ formData' = renderCards(formData, loading, timeEntries, currentWeek)
    /\ UNCHANGED <<ttUser, currentWeek, timeEntries, projects, loading, editingEntry,
                   newEntry, dbEntries, writes, nextId, toast, ops>>
    /\ TTOnly

\* The time_entries read returns: setTimeEntries, and finally setLoading(false).
FetchEntriesOkMutNewestOnly(i) ==
    /\ fetches[i].pc = "entries"
    /\ timeEntries' = IF i = Len(fetches)
                      THEN selectEntries(dbEntries, fetches[i].user_id, fetches[i].range)
                      ELSE timeEntries
    /\ loading' = FALSE
    /\ fetches' = RemoveAt(fetches, i)
    /\ formData' = renderCards(formData, loading', timeEntries', currentWeek)
    /\ UNCHANGED <<ttUser, currentWeek, projects, tasks, editingEntry, newEntry,
                   dbEntries, writes, nextId, toast, ops>>
    /\ TTOnly
FetchEntriesOk(i) ==
    /\ fetches[i].pc = "entries"
    /\ timeEntries' = selectEntries(dbEntries, fetches[i].user_id, fetches[i].range)
    /\ loading' = FALSE
    /\ fetches' = RemoveAt(fetches, i)
    /\ formData' = renderCards(formData, loading', timeEntries', currentWeek)
    /\ UNCHANGED <<ttUser, currentWeek, projects, tasks, editingEntry, newEntry,
                   dbEntries, writes, nextId, toast, ops>>
    /\ TTOnly

\* One of the three reads returns an error: the catch raises the toast, and
\* finally setLoading(false).
FetchFailMutClearsEntries(i) ==
    /\ ops < MaxOps
    /\ toast' = "Failed to load data"
    /\ loading' = FALSE
    /\ timeEntries' = << >>
    /\ fetches' = RemoveAt(fetches, i)
    /\ ops' = ops + 1
    /\ formData' = renderCards(formData, loading', timeEntries', currentWeek)
    /\ UNCHANGED <<ttUser, currentWeek, projects, tasks, editingEntry,
                   newEntry, dbEntries, writes, nextId>>
    /\ TTOnly
FetchFail(i) ==
    /\ ops < MaxOps
    /\ toast' = "Failed to load data"
    /\ loading' = FALSE
    /\ fetches' = RemoveAt(fetches, i)
    /\ ops' = ops + 1
    /\ formData' = renderCards(formData, loading', timeEntries, currentWeek)
    /\ UNCHANGED <<ttUser, currentWeek, timeEntries, projects, tasks, editingEntry,
                   newEntry, dbEntries, writes, nextId>>
    /\ TTOnly

-----------------------------------------------------------------------------
(* Week navigation *)

\* The reference date is within the weeks the model visits.
WithinShift(cw) ==
    /\ cw.day >= InitialNow.day - 7 * MaxWeekShift
    /\ cw.day <= InitialNow.day + 7 * MaxWeekShift

\* A week button: setCurrentWeek, then the effect runs the new render's fetchData.
Navigate(cw) ==
    /\ ~loading
    /\ ops < MaxOps
    /\ Len(fetches) < MaxFetches
    /\ WithinShift(cw)
    /\ currentWeek' = cw
    /\ LET r == fetchData(ttUser.id, weekRange(cw), NoCreated)
       IN  /\ loading' = r.loading
           /\ fetches' = r.fetches
    /\ ops' = ops + 1
    /\ formData' = renderCards(formData, loading', timeEntries, currentWeek')
    /\ UNCHANGED <<ttUser, timeEntries, projects, tasks, editingEntry, newEntry,
                   dbEntries, writes, nextId, toast>>
    /\ TTOnly

PreviousWeekClick == Navigate(previousWeek(currentWeek))
NextWeekClick == Navigate(nextWeek(currentWeek))

-----------------------------------------------------------------------------
(* saveTimeEntry and deleteTimeEntry *)

\* entry.task_id || null
taskOrNull(taskId) == IF taskId = "" THEN "null" ELSE taskId

\* The hours saveTimeEntry sends for the entry it is given.
hoursToSendMutStored(entry) == entry.hours
hoursToSend(entry) == calculateHours(entry.start_time, entry.end_time)

\* The object given to update(), for the row with entry.id.
updatePayloadMutResendsDate(entry) ==
    [project_id |-> entry.project_id, task_id |-> taskOrNull(entry.task_id),
     date |-> entry.date, user_id |-> entry.user_id,
     start_time |-> entry.start_time, end_time |-> entry.end_time,
     hours |-> hoursToSend(entry), description |-> entry.description,
     updated_at |-> "now"]
updatePayload(entry) ==
    [project_id |-> entry.project_id, task_id |-> taskOrNull(entry.task_id),
     start_time |-> entry.start_time, end_time |-> entry.end_time,
     hours |-> hoursToSend(entry), description |-> entry.description,
     updated_at |-> "now"]

\* The object given to insert().
insertPayload(entry, userId) ==
    [user_id |-> userId, project_id |-> entry.project_id,
     task_id |-> taskOrNull(entry.task_id), date |-> entry.date,
     start_time |-> entry.start_time, end_time |-> entry.end_time,
     hours |-> hoursToSend(entry), description |-> entry.description]

\* Inserts awaiting the backend.
PendingInserts == Len(SelectSeq(writes, LAMBDA w : w.kind = "insert"))

\* saveTimeEntry(entry) up to its await: the request sent, with the closure's user
\* and week range kept for the fetchData that follows.
saveTimeEntry(entry, userId, range) ==
    IF userId = NoUser.id THEN writes
    ELSE IF entry.id # NoEntry
    THEN Append(writes, [kind |-> "update", id |-> entry.id,
                         payload |-> updatePayload(entry),
                         user_id |-> userId, range |-> range])
    ELSE Append(writes, [kind |-> "insert", id |-> NoEntry,
                         payload |-> insertPayload(entry, userId),
                         user_id |-> userId, range |-> range])

\* deleteTimeEntry(id) up to its await.
deleteTimeEntry(id, userId, range) ==
    Append(writes, [kind |-> "delete", id |-> id, payload |-> << >>,
                    user_id |-> userId, range |-> range])

\* The table after the backend applied a write.
applyWrite(db, w, newId) ==
    CASE w.kind = "insert" ->
            db \cup { Row(newId, w.payload.user_id, w.payload.project_id,
                          w.payload.task_id, w.payload.date, w.payload.start_time,
                          w.payload.end_time, w.payload.hours, w.payload.description) }
      [] w.kind = "update" ->
            { IF r.id = w.id
              THEN [r EXCEPT !.project_id = w.payload.project_id,
                             !.task_id = w.payload.task_id,
                             !.start_time = w.payload.start_time,
                             !.end_time = w.payload.end_time,
                             !.hours = w.payload.hours,
                             !.description = w.payload.description]
              ELSE r : r \in db }
      [] OTHER -> { r \in db : r.id # w.id }

successToast(kind) ==
    CASE kind = "insert" -> "Time entry added"
      [] kind = "update" -> "Time entry updated"
      [] OTHER -> "Time entry deleted"

failureToast(kind) ==
    IF kind = "delete" THEN "Failed to delete time entry"
    ELSE "Failed to save time entry"

\* The backend accepts the i-th write: the success toast; a save clears the row
\* selection and the draft; then fetchData of the closure.
WriteOk(i) ==
    LET w == writes[i]
        created == IF w.kind = "insert" THEN [id |-> nextId, date |-> w.payload.date]
                   ELSE NoCreated
        r == fetchData(w.user_id, w.range, created)
    IN  /\ Len(fetches) < MaxFetches
        /\ dbEntries' = applyWrite(dbEntries, w, nextId)
        /\ nextId' = IF w.kind = "insert" THEN nextId + 1 ELSE nextId
        /\ toast' = successToast(w.kind)
        /\ editingEntry' = IF w.kind = "delete" THEN editingEntry ELSE NoEntry
        /\ newEntry' = IF w.kind = "delete" THEN newEntry ELSE NoDraft
        /\ writes' = RemoveAt(writes, i)
        /\ loading' = r.loading
        /\ fetches' = r.fetches
        /\ formData' = renderCards(formData, loading', timeEntries, currentWeek)
        /\ UNCHANGED <<ttUser, currentWeek, timeEntries, projects, tasks, ops>>
        /\ TTOnly

\* The backend rejects the i-th write: the catch raises the failure toast.
WriteFailMutClears(i) ==
    /\ ops < MaxOps
    /\ toast' = failureToast(writes[i].kind)
    /\ writes' = RemoveAt(writes, i)
    /\ ops' = ops + 1
    /\ editingEntry' = NoEntry
    /\ newEntry' = NoDraft
    /\ formData' = renderCards(formData, loading, timeEntries, currentWeek)
    /\ UNCHANGED <<ttUser, currentWeek, timeEntries, projects, tasks, loading,
                   dbEntries, fetches, nextId>>
    /\ TTOnly
WriteFail(i) ==
    /\ ops < MaxOps
    /\ toast' = failureToast(writes[i].kind)
    /\ writes' = RemoveAt(writes, i)
    /\ ops' = ops + 1
    /\ formData' = renderCards(formData, loading, timeEntries, currentWeek)
    /\ UNCHANGED <<ttUser, currentWeek, timeEntries, projects, tasks, loading,
                   editingEntry, newEntry, dbEntries, fetches, nextId>>
    /\ TTOnly

-----------------------------------------------------------------------------
(* The new-entry draft and NewEntryForm *)

\* A gesture on the grid: the grid is rendered, and the model has gestures left.
Gesture ==
    /\ ~loading
    /\ ops < MaxOps
    /\ ops' = ops + 1

\* Variables no gesture on a form changes.
GestureFrame ==
    /\ UNCHANGED <<ttUser, currentWeek, timeEntries, projects, tasks, loading, dbEntries,
                   fetches, nextId, toast>>
    /\ TTOnly

\* startNewEntry(day): the + button of a column.
StartNewEntry(col) ==
    /\ Gesture
    /\ newEntry' = [date |-> format(weekDays(currentWeek)[col]), project_id |-> "",
                    task_id |-> "", start_time |-> <<9, 0>>, end_time |-> <<10, 0>>,
                    description |-> ""]
    /\ GestureFrame
    /\ UNCHANGED <<editingEntry, formData, writes>>

\* NewEntryForm is rendered in the column of the draft's date.
DraftShown == newEntry # NoDraft /\ newEntry.date \in weekDates(currentWeek)

\* The options of a project select, and of the task select (rendered only when the
\* project has tasks).
projectOptions == {""} \cup { projects[i].id : i \in DOMAIN projects }
taskOptions(projectId) ==
    IF Len(projectTasks(tasks, projectId)) > 0
    THEN {""} \cup { t.id : t \in SeqToSet(projectTasks(tasks, projectId)) }
    ELSE {}

\* onChange of NewEntryForm's controls: the draft with one control's new value.
NewEntryChange(entry) ==
    /\ Gesture
    /\ DraftShown
    /\ entry # newEntry
    /\ newEntry' = entry
    /\ GestureFrame
    /\ UNCHANGED <<editingEntry, formData, writes>>

NewEntryProject == \E p \in projectOptions :
    NewEntryChange([newEntry EXCEPT !.project_id = p, !.task_id = ""])
NewEntryTask == \E t \in taskOptions(newEntry.project_id) :
    NewEntryChange([newEntry EXCEPT !.task_id = t])
NewEntryStart == \E t \in StartTimes :
    NewEntryChange([newEntry EXCEPT !.start_time = t])
NewEntryEnd == \E t \in EndTimes :
    NewEntryChange([newEntry EXCEPT !.end_time = t])
NewEntryDescription == \E d \in Descriptions :
    NewEntryChange([newEntry EXCEPT !.description = d])

\* The draft as the Partial<TimeEntry> given to saveTimeEntry: it has no id, no
\* user_id and no hours.
draftEntry(draft) ==
    Row(NoEntry, "", draft.project_id, draft.task_id, draft.date, draft.start_time,
        draft.end_time, 0, draft.description)

\* NewEntryForm's save button is disabled while no project is selected.
saveEnabledMutAlways(draft) == TRUE
saveEnabled(draft) == draft.project_id # ""

\* NewEntryForm's save button: onSave(entry).
NewEntrySave ==
    /\ Gesture
    /\ DraftShown
    /\ saveEnabled(newEntry)
    /\ Len(writes) < MaxWrites
    /\ nextId + PendingInserts <= MaxRows
    /\ writes' = saveTimeEntry(draftEntry(newEntry), ttUser.id, weekRange(currentWeek))
    /\ GestureFrame
    /\ UNCHANGED <<editingEntry, newEntry, formData>>

\* NewEntryForm's cancel button.
NewEntryCancel ==
    /\ Gesture
    /\ DraftShown
    /\ newEntry' = NoDraft
    /\ GestureFrame
    /\ UNCHANGED <<editingEntry, formData, writes>>

-----------------------------------------------------------------------------
(* TimeEntryCard *)

\* The entry prop of the card with that id.
cardEntry(id) == CHOOSE e \in shownEntries(timeEntries, currentWeek) : e.id = id

\* The cards on the grid.
Cards == DOMAIN formData

\* onEdit: the edit button of a card in view mode.
EditEntry(id) ==
    /\ Gesture
    /\ editingEntry # id
    /\ editingEntry' = id
    /\ GestureFrame
    /\ UNCHANGED <<newEntry, formData, writes>>

\* onChange of the controls of the card in editing mode.
CardChange(id, form) ==
    /\ Gesture
    /\ editingEntry = id
    /\ form # formData[id]
    /\ formData' = [formData EXCEPT ![id] = form]
    /\ GestureFrame
    /\ UNCHANGED <<editingEntry, newEntry, writes>>

CardProject(id) == \E p \in projectOptions :
    CardChange(id, [formData[id] EXCEPT !.project_id = p, !.task_id = ""])
CardTask(id) == \E t \in taskOptions(formData[id].project_id) :
    CardChange(id, [formData[id] EXCEPT !.task_id = t])
CardStart(id) == \E t \in StartTimes :
    CardChange(id, [formData[id] EXCEPT !.start_time = t])
CardEnd(id) == \E t \in EndTimes :
    CardChange(id, [formData[id] EXCEPT !.end_time = t])
CardDescription(id) == \E d \in Descriptions :
    CardChange(id, [formData[id] EXCEPT !.description = d])

\* { ...entry, ...formData }
mergedEntry(entry, form) ==
    [entry EXCEPT !.project_id = form.project_id, !.task_id = form.task_id,
                  !.start_time = form.start_time, !.end_time = form.end_time,
                  !.description = form.description]

\* The card's save button: onSave({ ...entry, ...formData }).
CardSave(id) ==
    /\ Gesture
    /\ editingEntry = id
    /\ Len(writes) < MaxWrites
    /\ writes' = saveTimeEntry(mergedEntry(cardEntry(id), formData[id]), ttUser.id,
                               weekRange(currentWeek))
    /\ GestureFrame
    /\ UNCHANGED <<editingEntry, newEntry, formData>>

\* onCancel: the card's cancel button.
CardCancel(id) ==
    /\ Gesture
    /\ editingEntry = id
    /\ editingEntry' = NoEntry
    /\ GestureFrame
    /\ UNCHANGED <<newEntry, formData, writes>>

\* onDelete: the delete button of a card in view mode.
DeleteEntry(id) ==
    /\ Gesture
    /\ editingEntry # id
    /\ Len(writes) < MaxWrites
    /\ writes' = deleteTimeEntry(id, ttUser.id, weekRange(currentWeek))
    /\ GestureFrame
    /\ UNCHANGED <<editingEntry, newEntry, formData>>

-----------------------------------------------------------------------------
(* The Projects page: its data, its forms and its reads *)

\* A text input's value is the sequence of its characters.
Whitespace == { " ", "\t", "\n" }

\* String.prototype.trim: leading and trailing white space removed.
RECURSIVE trimStart(_)
trimStart(text) ==
    IF text # << >> /\ Head(text) \in Whitespace THEN trimStart(Tail(text)) ELSE text
RECURSIVE trimEnd(_)
trimEnd(text) ==
    IF text # << >> /\ text[Len(text)] \in Whitespace
    THEN trimEnd(SubSeq(text, 1, Len(text) - 1)) ELSE text
trim(text) == trimEnd(trimStart(text))

\* Values typed into the name and client inputs, and given to the other controls.
ProjectNames == { << >>, <<" ">>, <<" ", "\t">>, <<"w">>, <<" ", "w", " ">> }
ClientNames == { << >>, <<" ">>, <<"k">> }
TaskNames == { << >>, <<" ">>, <<"r">> }
PjDescriptions == { "", "text" }
StartDates == { <<2025, 1, 1>>, <<2025, 2, 1>> }

\* The absent project id (null), also the key of the new-project form.
NoProject == ""

\* The ids the backend gives the rows it creates, by the number of the row.
ProjectIds == << "p1", "p2", "p3", "p4", "p5", "p6" >>
TaskIds == << "t1", "t2", "t3", "t4", "t5", "t6" >>

\* The rows stored before the session; created stands for created_at.
StoredProject ==
    [id |-> "p1", name |-> <<"a">>, client |-> <<"c">>, description |-> "",
     start_date |-> <<2024, 12, 1>>, created |-> 1]
StoredTask ==
    [id |-> "t1", project_id |-> "p1", name |-> <<"b">>, description |-> "",
     metadata |-> "{}", created |-> 1]

\* select('*').order('created_at', { ascending: false }) on projects or tasks.
RECURSIVE newestFirst(_)
newestFirst(rows) ==
    IF rows = {} THEN << >>
    ELSE LET first == CHOOSE r \in rows : \A q \in rows : q.created <= r.created
         IN  <<first>> \o newestFirst(rows \ {first})

\* getProjectTasks(projectId)
getProjectTasks(taskList, projectId) ==
    LET Match(task) == task.project_id = projectId
    IN  SelectSeq(taskList, Match)

\* ProjectForm's useState initial value, for the new-project form and for a project.
newProjectFormData ==
    [name |-> << >>, client |-> << >>, description |-> "",
     start_date |-> format(InitialNow)]
editProjectFormData(project) ==
    [name |-> project.name, client |-> project.client,
     description |-> project.description, start_date |-> project.start_date]

\* TaskForm's useState initial value (no task prop is ever passed).
newTaskFormData == [name |-> << >>, description |-> "", metadata |-> "{}"]

\* The ProjectForms after a render: the spinner replaces the page while loading; the
\* new-project form is mounted while showNewProject, and the form of the listed
\* project that editingProject names.  A form that stays mounted keeps its state.
renderProjectForms(oldForms, isLoading, list, editing, showNew) ==
    IF isLoading THEN << >>
    ELSE LET edited == { q \in SeqToSet(list) : q.id = editing }
             keys == (IF showNew THEN {NoProject} ELSE {}) \cup { q.id : q \in edited }
         IN  [k \in keys |->
                 IF k \in DOMAIN oldForms THEN oldForms[k]
                 ELSE IF k = NoProject THEN newProjectFormData
                 ELSE editProjectFormData(CHOOSE q \in edited : q.id = k)]

\* The TaskForms after a render: under the listed project that selectedProject
\* names, while showNewTask and while that project is not being edited.
renderTaskForms(oldForms, isLoading, list, editing, showTask, selected) ==
    IF isLoading THEN << >>
    ELSE LET keys == { q.id : q \in { r \in SeqToSet(list) :
                                        showTask /\ selected = r.id /\ editing # r.id } }
         IN  [k \in keys |-> IF k \in DOMAIN oldForms THEN oldForms[k]
                              ELSE newTaskFormData]

\* The forms of the render that follows a step.
PjRender ==
    /\ projectForm' = renderProjectForms(projectForm, pjLoading', pjProjects',
                                         editingProject', showNewProject')
    /\ taskForm' = renderTaskForms(taskForm, pjLoading', pjProjects', editingProject',
                                   showNewTask', selectedProject')

\* A step of the Projects page leaves the rest of the application alone.
PjOnly == UNCHANGED <<authVars, ttVars, call>>

\* fetchProjects() and fetchTasks() up to their await.
fetchProjects(calls) ==
    Append(calls, [kind |-> "fetchProjects", id |-> NoProject, payload |-> << >>])
fetchTasks(calls) ==
    Append(calls, [kind |-> "fetchTasks", id |-> NoProject, payload |-> << >>])

\* The projects read returns: setProjects, and finally setLoading(false).
FetchProjectsReturns(i) ==
    /\ pjCalls[i].kind = "fetchProjects"
    /\ pjProjects' = newestFirst(projectsTable)
    /\ pjLoading' = FALSE
    /\ pjCalls' = RemoveAt(pjCalls, i)
    /\ UNCHANGED <<pjTasks, editingProject, showNewProject, selectedProject,
                   showNewTask, projectsTable, tasksTable, pjNextId, pjToast, pjOps>>
    /\ PjRender
    /\ PjOnly

\* The projects read fails: the toast, and finally setLoading(false).
FetchProjectsFails(i) ==
    /\ pjCalls[i].kind = "fetchProjects"
    /\ pjOps < MaxPjOps
    /\ pjToast' = "Failed to load projects"
    /\ pjLoading' = FALSE
    /\ pjCalls' = RemoveAt(pjCalls, i)
    /\ pjOps' = pjOps + 1
    /\ UNCHANGED <<pjProjects, pjTasks, editingProject, showNewProject, selectedProject,
                   showNewTask, projectsTable, tasksTable, pjNextId>>
    /\ PjRender
    /\ PjOnly

\* The tasks read returns: setTasks.
FetchTasksReturns(i) ==
    /\ pjCalls[i].kind = "fetchTasks"
    /\ pjTasks' = newestFirst(tasksTable)
    /\ pjCalls' = RemoveAt(pjCalls, i)
    /\ UNCHANGED <<pjProjects, pjLoading, editingProject, showNewProject,
                   selectedProject, showNewTask, projectsTable, tasksTable, pjNextId,
                   pjToast, pjOps>>
    /\ PjRender
    /\ PjOnly

\* The tasks read fails: the error is logged, no toast is raised.
FetchTasksFails(i) ==
    /\ pjCalls[i].kind = "fetchTasks"
    /\ pjOps < MaxPjOps
    /\ pjCalls' = RemoveAt(pjCalls, i)
    /\ pjOps' = pjOps + 1
    /\ UNCHANGED <<pjProjects, pjTasks, pjLoading, editingProject, showNewProject,
                   selectedProject, showNewTask, projectsTable, tasksTable, pjNextId,
                   pjToast>>
    /\ PjRender
    /\ PjOnly

-----------------------------------------------------------------------------
(* The Projects page: its writes *)

\* saveProject(projectData) up to its await: an update for data with an id, else
\* an insert.
saveProject(calls, projectData) ==
    IF projectData.id # NoProject
    THEN Append(calls, [kind |-> "saveProject", id |-> projectData.id,
                        payload |-> [name |-> projectData.name,
                                     client |-> projectData.client,
                                     description |-> projectData.description,
                                     start_date |-> projectData.start_date,
                                     updated_at |-> "now"]])
    ELSE Append(calls, [kind |-> "saveProject", id |-> NoProject,
                        payload |-> [name |-> projectData.name,
                                     client |-> projectData.client,
                                     description |-> projectData.description,
                                     start_date |-> projectData.start_date]])

\* deleteProject(id) up to its await: nothing is sent unless confirm() returned true.
deleteProjectMutNoConfirm(calls, id, confirmed) ==
    Append(calls, [kind |-> "deleteProject", id |-> id, payload |-> << >>])
deleteProject(calls, id, confirmed) ==
    IF ~confirmed THEN calls
    ELSE Append(calls, [kind |-> "deleteProject", id |-> id, payload |-> << >>])

\* saveTask(taskData) up to its await.
saveTask(calls, taskData) ==
    IF taskData.id # NoProject
    THEN Append(calls, [kind |-> "saveTask", id |-> taskData.id,
                        payload |-> [name |-> taskData.name,
                                     description |-> taskData.description,
                                     metadata |-> taskData.metadata,
                                     updated_at |-> "now"]])
    ELSE Append(calls, [kind |-> "saveTask", id |-> NoProject,
                        payload |-> [project_id |-> taskData.project_id,
                                     name |-> taskData.name,
                                     description |-> taskData.description,
                                     metadata |-> taskData.metadata]])

\* deleteTask(id) up to its await: nothing is sent unless confirm() returned true.
deleteTask(calls, id, confirmed) ==
    IF ~confirmed THEN calls
    ELSE Append(calls, [kind |-> "deleteTask", id |-> id, payload |-> << >>])

PjWriteKinds == { "saveProject", "deleteProject", "saveTask", "deleteTask" }

\* Inserts of the page awaiting the backend.
PendingPjInserts ==
    Len(SelectSeq(pjCalls, LAMBDA c : c.kind \in {"saveProject", "saveTask"}
                                        /\ c.id = NoProject))

\* The backend's delete of a project also deletes the tasks of that project.
cascadeTasks(table, projectId) == { t \in table : t.project_id # projectId }

\* The backend accepts a task only for a project it holds.
referenceHolds(table, w) ==
    (w.kind = "saveTask" /\ w.id = NoProject) =>
        \E q \in table : q.id = w.payload.project_id

\* The projects table after the backend applied a write.
projectsAfter(table, w, n) ==
    CASE w.kind = "saveProject" /\ w.id = NoProject ->
            table \cup { [id |-> ProjectIds[n], name |-> w.payload.name,
                          client |-> w.payload.client,
                          description |-> w.payload.description,
                          start_date |-> w.payload.start_date, created |-> n] }
      [] w.kind = "saveProject" /\ w.id # NoProject ->
            { IF q.id = w.id
              THEN [q EXCEPT !.name = w.payload.name, !.client = w.payload.client,
                             !.description = w.payload.description,
                             !.start_date = w.payload.start_date]
              ELSE q : q \in table }
      [] w.kind = "deleteProject" -> { q \in table : q.id # w.id }
      [] OTHER -> table

\* The tasks table after the backend applied a write.
tasksAfter(table, w, n) ==
    CASE w.kind = "saveTask" /\ w.id = NoProject ->
            table \cup { [id |-> TaskIds[n], project_id |-> w.payload.project_id,
                          name |-> w.payload.name,
                          description |-> w.payload.description,
                          metadata |-> w.payload.metadata, created |-> n] }
      [] w.kind = "saveTask" /\ w.id # NoProject ->
            { IF t.id = w.id
              THEN [t EXCEPT !.name = w.payload.name,
                             !.description = w.payload.description,
                             !.metadata = w.payload.metadata]
              ELSE t : t \in table }
      [] w.kind = "deleteTask" -> { t \in table : t.id # w.id }
      [] w.kind = "deleteProject" -> cascadeTasks(table, w.id)
      [] OTHER -> table

pjSuccessToast(w) ==
    CASE w.kind = "saveProject" ->
            IF w.id # NoProject THEN "Project updated successfully"
            ELSE "Project created successfully"
      [] w.kind = "deleteProject" -> "Project deleted successfully"
      [] w.kind = "saveTask" ->
            IF w.id # NoProject THEN "Task updated successfully"
            ELSE "Task created successfully"
      [] OTHER -> "Task deleted successfully"

pjFailureToast(kind) ==
    CASE kind = "saveProject" -> "Failed to save project"
      [] kind = "deleteProject" -> "Failed to delete project"
      [] kind = "saveTask" -> "Failed to save task"
      [] OTHER -> "Failed to delete task"

\* The backend accepts the i-th call, a write: the success toast, the state the
\* function resets, then its re-fetch (fetchProjects after a project write,
\* fetchTasks after a task write).
PjWriteOk(i) ==
    LET w == pjCalls[i]
        rest == RemoveAt(pjCalls, i)
        inserts == w.id = NoProject /\ w.kind \in {"saveProject", "saveTask"}
    IN  /\ w.kind \in PjWriteKinds
        /\ referenceHolds(projectsTable, w)
        /\ projectsTable' = projectsAfter(projectsTable, w, pjNextId)
        /\ tasksTable' = tasksAfter(tasksTable, w, pjNextId)
        /\ pjNextId' = IF inserts THEN pjNextId + 1 ELSE pjNextId
        /\ pjToast' = pjSuccessToast(w)
        /\ editingProject' = IF w.kind = "saveProject" THEN NoProject ELSE editingProject
        /\ showNewProject' = IF w.kind = "saveProject" THEN FALSE ELSE showNewProject
        /\ showNewTask' = IF w.kind = "saveTask" THEN FALSE ELSE showNewTask
        /\ pjCalls' = IF w.kind \in {"saveProject", "deleteProject"}
                      THEN fetchProjects(rest) ELSE fetchTasks(rest)
        /\ UNCHANGED <<pjProjects, pjTasks, pjLoading, selectedProject, pjOps>>
        /\ PjRender
        /\ PjOnly

\* The backend rejects the i-th call, a write: the catch raises the failure toast.
PjWriteFail(i) ==
    /\ pjCalls[i].kind \in PjWriteKinds
    /\ pjOps < MaxPjOps
    /\ pjToast' = pjFailureToast(pjCalls[i].kind)
    /\ pjCalls' = RemoveAt(pjCalls, i)
    /\ pjOps' = pjOps + 1
    /\ UNCHANGED <<pjProjects, pjTasks, pjLoading, editingProject, showNewProject,
                   selectedProject, showNewTask, projectsTable, tasksTable, pjNextId>>
    /\ PjRender
    /\ PjOnly

-----------------------------------------------------------------------------
(* The Projects page: its buttons and forms *)

\* A gesture on the page: the page is rendered, and the model has gestures left.
PjGesture ==
    /\ ~pjLoading
    /\ pjOps < MaxPjOps
    /\ pjOps' = pjOps + 1

\* Variables no gesture on the page changes.
PjGestureFrame ==
    /\ UNCHANGED <<pjProjects, pjTasks, pjLoading, projectsTable, tasksTable, pjNextId>>
    /\ PjOnly

\* The projects rendered, and those rendered with their details and buttons.
Listed == { q.id : q \in SeqToSet(pjProjects) }
Viewed == Listed \ { editingProject }

\* The New Project button.
NewProjectClick ==
    /\ PjGesture
    /\ ~showNewProject
    /\ showNewProject' = TRUE
    /\ UNCHANGED <<editingProject, selectedProject, showNewTask, pjCalls, pjToast>>
    /\ PjGestureFrame
    /\ PjRender

\* The edit button of a project.
EditProjectClick(id) ==
    /\ PjGesture
    /\ id \in Viewed
    /\ editingProject' = id
    /\ UNCHANGED <<showNewProject, selectedProject, showNewTask, pjCalls, pjToast>>
    /\ PjGestureFrame
    /\ PjRender

\* onChange of a ProjectForm's controls.
ProjectFormChange(key, form) ==
    /\ PjGesture
    /\ form # projectForm[key]
    /\ projectForm' = [projectForm EXCEPT ![key] = form]
    /\ UNCHANGED <<editingProject, showNewProject, selectedProject, showNewTask,
                   taskForm, pjCalls, pjToast>>
    /\ PjGestureFrame

ProjectFormName(key) == \E n \in ProjectNames :
    ProjectFormChange(key, [projectForm[key] EXCEPT !.name = n])
ProjectFormClient(key) == \E c \in ClientNames :
    ProjectFormChange(key, [projectForm[key] EXCEPT !.client = c])
ProjectFormDescription(key) == \E d \in PjDescriptions :
    ProjectFormChange(key, [projectForm[key] EXCEPT !.description = d])
ProjectFormStartDate(key) == \E d \in StartDates :
    ProjectFormChange(key, [projectForm[key] EXCEPT !.start_date = d])

\* !formData.name.trim() || !formData.client.trim()
projectFormInvalidMutNoTrim(form) == form.name = << >> \/ form.client = << >>
projectFormInvalid(form) == trim(form.name) = << >> \/ trim(form.client) = << >>

\* ProjectForm.handleSubmit: the toast for a missing field, else onSave with the
\* project's id (if any) and the form data.
ProjectFormSubmit(key) ==
    /\ PjGesture
    /\ IF projectFormInvalid(projectForm[key])
       THEN /\ pjToast' = "Please fill in all required fields"
            /\ UNCHANGED pjCalls
       ELSE /\ Len(pjCalls) < MaxPjCalls
            /\ key = NoProject => pjNextId + PendingPjInserts <= MaxPjRows
            /\ pjCalls' = saveProject(pjCalls,
                                      [id |-> key, name |-> projectForm[key].name,
                                       client |-> projectForm[key].client,
                                       description |-> projectForm[key].description,
                                       start_date |-> projectForm[key].start_date])
            /\ UNCHANGED pjToast
    /\ UNCHANGED <<editingProject, showNewProject, selectedProject, showNewTask,
                   projectForm, taskForm>>
    /\ PjGestureFrame

\* The submit button with a required input empty, in a browser that validates the
\* form itself: no submit event is dispatched.
ProjectFormBlocked(key) ==
    /\ PjGesture
    /\ projectForm[key].name = << >> \/ projectForm[key].client = << >>
    /\ UNCHANGED <<editingProject, showNewProject, selectedProject, showNewTask,
                   projectForm, taskForm, pjCalls, pjToast>>
    /\ PjGestureFrame

\* onCancel of a ProjectForm: of the new-project form, or of a project's form.
ProjectFormCancel(key) ==
    /\ PjGesture
    /\ IF key = NoProject
       THEN showNewProject' = FALSE /\ UNCHANGED editingProject
       ELSE editingProject' = NoProject /\ UNCHANGED showNewProject
    /\ UNCHANGED <<selectedProject, showNewTask, pjCalls, pjToast>>
    /\ PjGestureFrame
    /\ PjRender

\* The delete button of a project, and the answer given to confirm().
DeleteProjectClick(id, confirmed) ==
    /\ PjGesture
    /\ id \in Viewed
    /\ confirmed => Len(pjCalls) < MaxPjCalls
    /\ pjCalls' = deleteProject(pjCalls, id, confirmed)
    /\ UNCHANGED <<editingProject, showNewProject, selectedProject, showNewTask,
                   projectForm, taskForm, pjToast>>
    /\ PjGestureFrame

\* The Add Task button of a project.
AddTaskClick(id) ==
    /\ PjGesture
    /\ id \in Viewed
    /\ ~(showNewTask /\ selectedProject = id)
    /\ selectedProject' = id
    /\ showNewTask' = TRUE
    /\ UNCHANGED <<editingProject, showNewProject, pjCalls, pjToast>>
    /\ PjGestureFrame
    /\ PjRender

\* onChange of a TaskForm's controls.
TaskFormChange(projectId, form) ==
    /\ PjGesture
    /\ form # taskForm[projectId]
    /\ taskForm' = [taskForm EXCEPT ![projectId] = form]
    /\ UNCHANGED <<editingProject, showNewProject, selectedProject, showNewTask,
                   projectForm, pjCalls, pjToast>>
    /\ PjGestureFrame

TaskFormName(projectId) == \E n \in TaskNames :
    TaskFormChange(projectId, [taskForm[projectId] EXCEPT !.name = n])
TaskFormDescription(projectId) == \E d \in PjDescriptions :
    TaskFormChange(projectId, [taskForm[projectId] EXCEPT !.description = d])

\* !formData.name.trim()
taskFormInvalid(form) == trim(form.name) = << >>

\* TaskForm.handleSubmit: the toast for a missing name, else onSave with the
\* project id and the form data.
TaskFormSubmit(projectId) ==
    /\ PjGesture
    /\ IF taskFormInvalid(taskForm[projectId])
       THEN /\ pjToast' = "Please enter a task name"
            /\ UNCHANGED pjCalls
       ELSE /\ Len(pjCalls) < MaxPjCalls
            /\ pjNextId + PendingPjInserts <= MaxPjRows
            /\ pjCalls' = saveTask(pjCalls,
                                   [id |-> NoProject, project_id |-> projectId,
                                    name |-> taskForm[projectId].name,
                                    description |-> taskForm[projectId].description,
                                    metadata |-> taskForm[projectId].metadata])
            /\ UNCHANGED pjToast
    /\ UNCHANGED <<editingProject, showNewProject, selectedProject, showNewTask,
                   projectForm, taskForm>>
    /\ PjGestureFrame

\* The submit button with the required name empty, in a browser that validates the
\* form itself.
TaskFormBlocked(projectId) ==
    /\ PjGesture
    /\ taskForm[projectId].name = << >>
    /\ UNCHANGED <<editingProject, showNewProject, selectedProject, showNewTask,
                   projectForm, taskForm, pjCalls, pjToast>>
    /\ PjGestureFrame

\* onCancel of a TaskForm.
TaskFormCancel(projectId) ==
    /\ PjGesture
    /\ showNewTask' = FALSE
    /\ selectedProject' = NoProject
    /\ UNCHANGED <<editingProject, showNewProject, pjCalls, pjToast>>
    /\ PjGestureFrame
    /\ PjRender

\* The tasks rendered with their delete button.
ViewedTasks ==
    UNION { { t.id : t \in SeqToSet(getProjectTasks(pjTasks, id)) } : id \in Viewed }

\* The delete button of a task, and the answer given to confirm().
DeleteTaskClick(id, confirmed) ==
    /\ PjGesture
    /\ id \in ViewedTasks
    /\ confirmed => Len(pjCalls) < MaxPjCalls
    /\ pjCalls' = deleteTask(pjCalls, id, confirmed)
    /\ UNCHANGED <<editingProject, showNewProject, selectedProject, showNewTask,
                   projectForm, taskForm, pjToast>>
    /\ PjGestureFrame

\* Projects as it mounts: the effect has called fetchProjects() and fetchTasks().
InitPj ==
    /\ pjProjects = << >>
    /\ pjTasks = << >>
    /\ pjLoading = TRUE
    /\ editingProject = NoProject
    /\ showNewProject = FALSE
    /\ selectedProject = NoProject
    /\ showNewTask = FALSE
    /\ projectForm = << >>
    /\ taskForm = << >>
    /\ projectsTable = { StoredProject }
    /\ tasksTable = { StoredTask }
    /\ pjCalls = fetchTasks(fetchProjects(<< >>))
    /\ pjNextId = 2
    /\ pjToast = ""
    /\ pjOps = 0

NextProjects ==
    \/ \E i \in DOMAIN pjCalls : FetchProjectsReturns(i)
    \/ \E i \in DOMAIN pjCalls : FetchProjectsFails(i)
    \/ \E i \in DOMAIN pjCalls : FetchTasksReturns(i)
    \/ \E i \in DOMAIN pjCalls : FetchTasksFails(i)
    \/ \E i \in DOMAIN pjCalls : PjWriteOk(i)
    \/ \E i \in DOMAIN pjCalls : PjWriteFail(i)
    \/ NewProjectClick
    \/ \E id \in Listed : EditProjectClick(id)
    \/ \E key \in DOMAIN projectForm : ProjectFormName(key)
    \/ \E key \in DOMAIN projectForm : ProjectFormClient(key)
    \/ \E key \in DOMAIN projectForm : ProjectFormDescription(key)
    \/ \E key \in DOMAIN projectForm : ProjectFormStartDate(key)
    \/ \E key \in DOMAIN projectForm : ProjectFormSubmit(key)
    \/ \E key \in DOMAIN projectForm : ProjectFormBlocked(key)
    \/ \E key \in DOMAIN projectForm : ProjectFormCancel(key)
    \/ \E id \in Listed, confirmed \in BOOLEAN : DeleteProjectClick(id, confirmed)
    \/ \E id \in Listed : AddTaskClick(id)
    \/ \E id \in DOMAIN taskForm : TaskFormName(id)
    \/ \E id \in DOMAIN taskForm : TaskFormDescription(id)
    \/ \E id \in DOMAIN taskForm : TaskFormSubmit(id)
    \/ \E id \in DOMAIN taskForm : TaskFormBlocked(id)
    \/ \E id \in DOMAIN taskForm : TaskFormCancel(id)
    \/ \E id \in ViewedTasks, confirmed \in BOOLEAN : DeleteTaskClick(id, confirmed)

-----------------------------------------------------------------------------
(* The week view's specification *)

InitTT ==
    /\ ttUser = NoUser
    /\ currentWeek = InitialNow
    /\ timeEntries = << >>
    /\ projects = << >>
    /\ tasks = << >>
    /\ loading = TRUE
    /\ editingEntry = NoEntry
    /\ newEntry = NoDraft
    /\ formData = << >>
    /\ dbEntries = { StoredRow }
    /\ fetches = << >>
    /\ writes = << >>
    /\ nextId = 2
    /\ toast = ""
    /\ ops = 0

NextTT ==
    \/ UserResolved
    \/ \E i \in DOMAIN fetches : FetchProjectsOk(i)
    \/ \E i \in DOMAIN fetches : FetchTasksOk(i)
    \/ \E i \in DOMAIN fetches : FetchEntriesOk(i)
    \/ \E i \in DOMAIN fetches : FetchFail(i)
    \/ PreviousWeekClick
    \/ NextWeekClick
    \/ \E i \in DOMAIN writes : WriteOk(i)
    \/ \E i \in DOMAIN writes : WriteFail(i)
    \/ \E col \in NewEntryColumns : StartNewEntry(col)
    \/ NewEntryProject
    \/ NewEntryTask
    \/ NewEntryStart
    \/ NewEntryEnd
    \/ NewEntryDescription
    \/ NewEntrySave
    \/ NewEntryCancel
    \/ \E id \in Cards : EditEntry(id)
    \/ \E id \in Cards : CardProject(id)
    \/ \E id \in Cards : CardTask(id)
    \/ \E id \in Cards : CardStart(id)
    \/ \E id \in Cards : CardEnd(id)
    \/ \E id \in Cards : CardDescription(id)
    \/ \E id \in Cards : CardSave(id)
    \/ \E id \in Cards : CardCancel(id)
    \/ \E id \in Cards : DeleteEntry(id)

InitAuthIdle ==
    /\ usersTable = {}
    /\ linksSent = {}
    /\ session = ""
    /\ user = [h \in Hooks |-> NoUser]
    /\ authLoading = [h \in Hooks |-> TRUE]
    /\ signInCall = NoSignIn
    /\ lookups = << >>
    /\ authToast = ""
    /\ currentView = "timetracking"

InitCallIdle == call = [fn |-> "none"]

\* The week view mounted, nothing signed in through this page, no function applied.
InitWeekView == InitTT /\ InitAuthIdle /\ InitCallIdle /\ InitPj

\* The Projects page mounted.
InitProjectsPage == InitPj /\ InitTT /\ InitAuthIdle /\ InitCallIdle

SpecProjects == InitProjectsPage /\ [][NextProjects]_vars

SpecTT == InitWeekView /\ [][NextTT]_vars

\* The week view with a backend that answers every read and accepts every write.
NextTTNoFailure ==
    \/ UserResolved
    \/ \E i \in DOMAIN fetches : FetchProjectsOk(i)
    \/ \E i \in DOMAIN fetches : FetchTasksOk(i)
    \/ \E i \in DOMAIN fetches : FetchEntriesOk(i)
    \/ PreviousWeekClick
    \/ NextWeekClick
    \/ \E i \in DOMAIN writes : WriteOk(i)
    \/ \E col \in NewEntryColumns : StartNewEntry(col)
    \/ NewEntryProject
    \/ NewEntryTask
    \/ NewEntryStart
    \/ NewEntryEnd
    \/ NewEntryDescription
    \/ NewEntrySave
    \/ NewEntryCancel
    \/ \E id \in Cards : EditEntry(id)
    \/ \E id \in Cards : CardProject(id)
    \/ \E id \in Cards : CardTask(id)
    \/ \E id \in Cards : CardStart(id)
    \/ \E id \in Cards : CardEnd(id)
    \/ \E id \in Cards : CardDescription(id)
    \/ \E id \in Cards : CardSave(id)
    \/ \E id \in Cards : CardCancel(id)
    \/ \E id \in Cards : DeleteEntry(id)

SpecTTNoFailure == InitWeekView /\ [][NextTTNoFailure]_vars

-----------------------------------------------------------------------------
(* The pure functions of the week view, applied to drawn arguments *)

\* Times of day of the reference dates: midnight, one millisecond later, noon, and
\* the last millisecond of the day.
SampleMs == {0, 1, 12 * MsPerHour, MsPerDay - 1}

\* Reference dates: the days around 2025-01-01, across the turn of the year.
ReferenceDates ==
    { [day |-> InitialNow.day + k, ms |-> m] : k \in (-DaySpan)..DaySpan, m \in SampleMs }

\* HH:MM values of a time input.
ClockTimes == { <<h, m>> : h \in {0, 9, 10, 23}, m \in {0, 30, 59} }

\* Entries of two adjacent days, with different hours.
SampleEntries ==
    { Row(1, TheUser.id, "p1", "null", format([day |-> InitialNow.day + k, ms |-> 0]),
          <<9, 0>>, <<10, 0>>, h, "") : k \in {0, 1}, h \in {30, 90} }

SampleLists == UNION { [1..n -> SampleEntries] : n \in 0..MaxListLen }

\* weekStart and weekEnd of a render whose currentWeek is date.
CallWeek(date) ==
    /\ call' = [fn |-> "week", date |-> date, weekStart |-> weekStart(date),
                weekEnd |-> weekEnd(date)]
    /\ UNCHANGED <<authVars, ttVars, pjVars>>

\* The week buttons' reference dates, one after the other.
CallNavigate(date) ==
    /\ call' = [fn |-> "navigate", date |-> date, next |-> nextWeek(date),
                previous |-> previousWeek(date),
                nextThenPrevious |-> previousWeek(nextWeek(date)),
                previousThenNext |-> nextWeek(previousWeek(date))]
    /\ UNCHANGED <<authVars, ttVars, pjVars>>

CallCalculateHours(startTime, endTime) ==
    /\ call' = [fn |-> "calculateHours", start_time |-> startTime, end_time |-> endTime,
                hours |-> calculateHours(startTime, endTime)]
    /\ UNCHANGED <<authVars, ttVars, pjVars>>

CallTotalHours(entries, date) ==
    /\ call' = [fn |-> "getTotalHoursForDay", entries |-> entries, date |-> date,
                forDay |-> getEntriesForDay(entries, date),
                total |-> getTotalHoursForDay(entries, date)]
    /\ UNCHANGED <<authVars, ttVars, pjVars>>

NextPure ==
    \/ \E date \in ReferenceDates : CallWeek(date)
    \/ \E date \in ReferenceDates : CallNavigate(date)
    \/ \E s \in ClockTimes, e \in ClockTimes : CallCalculateHours(s, e)
    \/ \E entries \in SampleLists, k \in {0, 1} :
          CallTotalHours(entries, [day |-> InitialNow.day + k, ms |-> 12 * MsPerHour])

SpecPure == InitWeekView /\ [][NextPure]_vars

-----------------------------------------------------------------------------
(* Claims about the pure functions (under SpecPure) *)

\* 2024-01-01, a Monday.
AMonday == DaysFromCivil(2024, 1, 1)
IsMonday(date) == (date.day - AMonday) % 7 = 0
IsSunday(date) == (date.day - AMonday) % 7 = 6

\* C3: for every reference date D, weekStart is the Monday at or before D, weekEnd
\* is the Sunday six days after weekStart, and weekStart <= D <= weekEnd.
C3_WeekRange ==
    call.fn = "week" =>
        /\ IsMonday(call.weekStart)
        /\ call.weekStart.day <= call.date.day
        /\ call.date.day - call.weekStart.day < 7
        /\ IsSunday(call.weekEnd)
        /\ call.weekEnd.day = call.weekStart.day + 6
        /\ DateLeq(call.weekStart, call.date)
        /\ DateLeq(call.date, call.weekEnd)

\* A Sunday evening's week: it started the Monday six days before.
C3_Witness ==
    /\ call.fn = "week"
    /\ IsSunday(call.date)
    /\ call.date.ms = MsPerDay - 1
    /\ call.weekStart.day = call.date.day - 6
    /\ call.weekEnd.day = call.date.day

\* C4: next week then previous week, and previous then next, return the reference
\* date; each single step moves the Monday-Sunday range by exactly seven days,
\* whatever the reference date.
C4_NavigationInverse ==
    call.fn = "navigate" =>
        /\ call.nextThenPrevious = call.date
        /\ call.previousThenNext = call.date
        /\ weekStart(call.next).day = weekStart(call.date).day + 7
        /\ weekEnd(call.next).day = weekEnd(call.date).day + 7
        /\ weekStart(call.previous).day = weekStart(call.date).day - 7
        /\ weekEnd(call.previous).day = weekEnd(call.date).day - 7
        /\ call.next.ms = call.date.ms
        /\ call.previous.ms = call.date.ms

\* A step back across the turn of the year.
C4_Witness ==
    /\ call.fn = "navigate"
    /\ format(call.date) = <<2025, 1, 3>>
    /\ format(call.previous) = <<2024, 12, 27>>
    /\ call.previousThenNext = call.date

\* The sum of hours over a set of positions of a list.
RECURSIVE SumOver(_, _)
SumOver(entries, positions) ==
    IF positions = {} THEN 0
    ELSE LET i == CHOOSE j \in positions : TRUE
         IN  entries[i].hours + SumOver(entries, positions \ {i})

PositionsOfDay(entries, date) == { i \in DOMAIN entries : entries[i].date = format(date) }

\* C5: getTotalHoursForDay(date) is the sum of hours over exactly the entries whose
\* date equals that date; entries of other days contribute nothing.
C5_TotalHoursForDay ==
    call.fn = "getTotalHoursForDay" =>
        /\ call.total = SumOver(call.entries, PositionsOfDay(call.entries, call.date))
        /\ Len(call.forDay) = Cardinality(PositionsOfDay(call.entries, call.date))
        /\ \A i \in DOMAIN call.forDay : call.forDay[i].date = format(call.date)

\* A list holding entries of the day asked for and of the day after.
C5_Witness ==
    /\ call.fn = "getTotalHoursForDay"
    /\ Len(call.entries) = 3
    /\ Cardinality(PositionsOfDay(call.entries, call.date)) = 2
    /\ call.total = 120

\* Minutes since midnight of an HH:MM time.
MinutesOf(time) == time[1] * 60 + time[2]

\* C6: calculateHours(start, end) is (minutes of end - minutes of start) / 60;
\* 09:00-10:30 gives 1.5 and 10:00-10:00 gives 0 (hours in sixtieths).
C6_CalculateHours ==
    call.fn = "calculateHours" =>
        /\ call.hours = MinutesOf(call.end_time) - MinutesOf(call.start_time)
        /\ (call.start_time = <<9, 0>> /\ call.end_time = <<10, 30>>) => call.hours = 90
        /\ (call.start_time = <<10, 0>> /\ call.end_time = <<10, 0>>) => call.hours = 0

C6_Witness ==
    /\ call.fn = "calculateHours"
    /\ call.start_time = <<9, 0>>
    /\ call.end_time = <<10, 30>>
    /\ call.hours = 90

-----------------------------------------------------------------------------
(* Claims about the entry lifecycle (under SpecTT) *)

\* C7: no insert into time_entries is issued for a new entry with an empty
\* project_id: while the draft has no project its save button cannot be used, and
\* every insert awaiting the backend carries a project.
C7_NoInsertWithoutProject ==
    /\ \A i \in DOMAIN writes :
          writes[i].kind = "insert" => writes[i].payload.project_id # ""
    /\ (~loading /\ DraftShown /\ newEntry.project_id = "") => ~ENABLED NewEntrySave

\* The draft is on the grid with no project selected, and nothing was sent.
C7_Witness ==
    /\ ~loading
    /\ DraftShown
    /\ newEntry.project_id = ""
    /\ newEntry.description = "note"
    /\ writes = << >>
    /\ ops < MaxOps

\* C8: every create and update sent to time_entries carries the hours computed
\* from the start_time and end_time of that same write, never a stored or
\* client-held hours value.
C8_HoursRecomputed ==
    \A i \in DOMAIN writes :
        writes[i].kind \in {"insert", "update"} =>
            writes[i].payload.hours =
                MinutesOf(writes[i].payload.end_time) - MinutesOf(writes[i].payload.start_time)

\* An update of the stored row, whose stored hours are not its duration, is awaiting
\* the backend with the duration of the times it sends.
C8_Witness ==
    \E i \in DOMAIN writes :
        /\ writes[i].kind = "update"
        /\ writes[i].id = StoredRow.id
        /\ writes[i].payload.end_time = <<10, 30>>
        /\ writes[i].payload.hours = 90
        /\ \E e \in SeqToSet(timeEntries) : e.id = StoredRow.id /\ e.hours = 120

\* The step in which the backend accepts the i-th write, an insert.
InsertAccepted(i) ==
    /\ writes[i].kind = "insert"
    /\ writes' = RemoveAt(writes, i)
    /\ toast' = "Time entry added"

\* The Date of a 'yyyy-MM-dd' string.
dateOf(dateStr) == [day |-> DaysFromCivil(dateStr[1], dateStr[2], dateStr[3]), ms |-> 0]

\* The row a fetchData call was issued for is in getEntriesForDay for its date.
CreatedListed(entries, created) ==
    \E k \in DOMAIN getEntriesForDay(entries, dateOf(created.date)) :
        getEntriesForDay(entries, dateOf(created.date))[k].id = created.id

\* A successful create issues exactly one fetchData call, for the week range of the
\* render the save button was used in.
OneRefetchPerCreate ==
    \A i \in DOMAIN writes :
        InsertAccepted(i) =>
            /\ Len(fetches') = Len(fetches) + 1
            /\ SubSeq(fetches', 1, Len(fetches)) = fetches
            /\ fetches'[Len(fetches')].range = writes[i].range
            /\ fetches'[Len(fetches')].pc = "projects"
            /\ loading'

FailureToasts == { "Failed to save time entry", "Failed to delete time entry" }

\* C10: when the backend rejects a create, update or delete, the entry, project
\* and task lists, the row selection, the draft and the cards' form state are
\* unchanged and no fetchData call is issued.
C10_FailureLeavesState ==
    [][ (Len(writes') < Len(writes) /\ toast' \in FailureToasts) =>
            UNCHANGED <<timeEntries, projects, tasks, editingEntry, newEntry, formData,
                        fetches, loading, currentWeek, dbEntries>> ]_vars

\* A rejected update: the row is still selected and its form still holds the edit.
C10_Witness ==
    /\ toast = "Failed to save time entry"
    /\ writes = << >>
    /\ ~loading
    /\ editingEntry = StoredRow.id
    /\ StoredRow.id \in Cards
    /\ formData[StoredRow.id].end_time = <<10, 30>>

\* The step in which the backend rejects the i-th write.
WriteRejected(i) ==
    /\ writes' = RemoveAt(writes, i)
    /\ toast' \in FailureToasts
    /\ ops' = ops + 1

\* The kinds of operation on time_entries: create, update and delete.
WriteKinds == { "insert", "update", "delete" }

\* C11: a failed create, a failed update and a failed delete each surface a
\* failure signal that no failure of one of the other two operations surfaces.
C11_DistinctFailureSignals ==
    [][ \A i \in DOMAIN writes :
            WriteRejected(i) =>
                \A k \in WriteKinds \ { writes[i].kind } : toast' # failureToast(k) ]_vars

\* The step in which one of the reads of the i-th fetchData call fails.
FetchRejected(i) ==
    /\ fetches' = RemoveAt(fetches, i)
    /\ ops' = ops + 1

\* C12: when a read of a week fetch fails (whichever of the three it is), the
\* failure toast is raised, loading ends false, the entry list is the one the
\* failing fetch found, and the grid is rendered and takes gestures.
C12_FetchFailure ==
    /\ [][ \A i \in DOMAIN fetches :
              FetchRejected(i) =>
                  /\ toast' = "Failed to load data"
                  /\ loading' = FALSE
                  /\ timeEntries' = timeEntries
                  /\ UNCHANGED <<editingEntry, newEntry, currentWeek, dbEntries, writes>> ]_vars
    /\ [](toast = "Failed to load data" /\ ~loading /\ ops < MaxOps =>
             ENABLED StartNewEntry(1))

\* A fetch of the next week failed: the grid is back, with the entries of the week
\* before still in the list.
C12_Witness ==
    /\ toast = "Failed to load data"
    /\ ~loading
    /\ fetches = << >>
    /\ currentWeek = nextWeek(InitialNow)
    /\ timeEntries = << StoredRow >>

\* The fields of the object an update sends.
UpdateFields ==
    { "project_id", "task_id", "start_time", "end_time", "hours", "description",
      "updated_at" }

\* The step in which the backend accepts the i-th write, an update.
UpdateAccepted(i) ==
    /\ writes[i].kind = "update"
    /\ writes' = RemoveAt(writes, i)
    /\ toast' = "Time entry updated"

\* C16: an update sends project, task, start time, end time, recomputed hours,
\* description and updated_at only, for the row with the entry's id; when the
\* backend applies it no row's date or user changes, and no other row changes.
C16_UpdateKeepsDateAndUser ==
    /\ [](\A i \in DOMAIN writes :
             writes[i].kind = "update" =>
                 /\ DOMAIN writes[i].payload = UpdateFields
                 /\ writes[i].id # NoEntry)
    /\ [][ \A i \in DOMAIN writes :
              UpdateAccepted(i) =>
                  /\ Cardinality(dbEntries') = Cardinality(dbEntries)
                  /\ \A r \in dbEntries' :
                        \E q \in dbEntries :
                            q.id = r.id /\ q.date = r.date /\ q.user_id = r.user_id
                  /\ \A q \in dbEntries : q.id # writes[i].id => q \in dbEntries' ]_vars

\* The update of the stored row to 09:00-10:30 was applied: its date and user are
\* the stored ones.
C16_Witness ==
    /\ toast = "Time entry updated"
    /\ \E r \in dbEntries :
          /\ r.id = StoredRow.id
          /\ r.end_time = <<10, 30>>
          /\ r.hours = 90
          /\ r.date = StoredRow.date
          /\ r.user_id = StoredRow.user_id

\* The rows in editing state: isEditing={editingEntry === entry.id}.
EditingRows == { id \in Cards : editingEntry = id }

\* C17: at most one row is in editing state, and the row in editing state leaves
\* it only by its own cancel button or by the backend accepting a save of that row.
C17_RowStateMachine ==
    /\ [](Cardinality(EditingRows) <= 1)
    /\ [][ (editingEntry # NoEntry /\ editingEntry' # editingEntry) =>
              \/ CardCancel(editingEntry)
              \/ \E i \in DOMAIN writes :
                     /\ writes[i].id = editingEntry
                     /\ UpdateAccepted(i) ]_vars

\* C18: starting, cancelling or saving an edit of a row leaves the draft as it
\* is, and starting, cancelling or saving a new entry leaves the row selection as
\* it is; saving covers the save button and the backend accepting the write.
C18_IndependentSlots ==
    [][ /\ (\E id \in Cards : EditEntry(id) \/ CardCancel(id) \/ CardSave(id))
              => newEntry' = newEntry
        /\ (\E i \in DOMAIN writes : UpdateAccepted(i)) => newEntry' = newEntry
        /\ ((\E col \in NewEntryColumns : StartNewEntry(col))
                \/ NewEntryCancel \/ NewEntrySave)
              => editingEntry' = editingEntry
        /\ (\E i \in DOMAIN writes : InsertAccepted(i))
              => editingEntry' = editingEntry ]_vars

\* C19: with every read answered and every write accepted, once no fetchData call
\* and no write is in flight, every entry of the list has a date of the selected
\* week (Monday to Sunday).
C19_NoStaleResponse ==
    (ttUser # NoUser /\ fetches = << >> /\ writes = << >>) =>
        \A e \in SeqToSet(timeEntries) :
            /\ DateStrLeq(format(weekStart(currentWeek)), e.date)
            /\ DateStrLeq(e.date, format(weekEnd(currentWeek)))

\* The step in which the time_entries read of the i-th fetchData call is answered.
FetchCompleted(i) ==
    /\ fetches[i].pc = "entries"
    /\ fetches' = RemoveAt(fetches, i)
    /\ ops' = ops

\* The rows the backend holds for a user within a week range, in the query's order.
RowsOfRange(userId, range) ==
    Ordered({ r \in dbEntries : /\ r.user_id = userId
                                /\ DateStrLeq(range[1], r.date)
                                /\ DateStrLeq(r.date, range[2]) })

\* C20: a fetchData call leaves the calls in flight only by being answered or by
\* failing, never because another call was issued or answered; and whichever call
\* is answered, first issued or not, the entry list becomes its result, so that
\* after two overlapping calls the list is the result of the one answered last.
C20_LastFetchWins ==
    [][ /\ \A i \in DOMAIN fetches :
              FetchCompleted(i) => timeEntries' = RowsOfRange(fetches[i].user_id,
                                                              fetches[i].range)
        /\ \/ \E i \in DOMAIN fetches :
                 /\ fetches' = RemoveAt(fetches, i)
                 /\ (fetches[i].pc = "entries" \/ toast' = "Failed to load data")
           \/ /\ Len(fetches') >= Len(fetches)
              /\ \A i \in DOMAIN fetches :
                    /\ fetches'[i].range = fetches[i].range
                    /\ fetches'[i].user_id = fetches[i].user_id ]_vars

\* A create was saved in the week of 2024-12-30 and the next week selected before
\* the backend accepted it.  The fetch of the create, issued second, was answered
\* first and its two rows are the list; the fetch of the navigation is in flight.
C20_Witness ==
    /\ toast = "Time entry added"
    /\ ~loading
    /\ ops = 4
    /\ currentWeek = nextWeek(InitialNow)
    /\ Len(fetches) = 1
    /\ fetches[1].created = NoCreated
    /\ fetches[1].range = weekRange(currentWeek)
    /\ Len(timeEntries) = 2
    /\ \A i \in DOMAIN timeEntries : timeEntries[i].date \in weekDates(InitialNow)

\* C22: every insert or update of time_entries awaiting the backend carries a
\* task_id that is null or the id of a task of the loaded task list whose
\* project_id is the project_id of the same write; and a step that changes the
\* project selected in the draft or in a card's form leaves its task unselected.
C22_TaskOfProject ==
    /\ [](\A i \in DOMAIN writes :
             writes[i].kind \in {"insert", "update"} =>
                \/ writes[i].payload.task_id = "null"
                \/ \E t \in SeqToSet(tasks) :
                      /\ t.id = writes[i].payload.task_id
                      /\ t.project_id = writes[i].payload.project_id)
    /\ [][ (newEntry # NoDraft /\ newEntry' # NoDraft
               /\ newEntry'.project_id # newEntry.project_id) =>
              newEntry'.task_id = "" ]_vars
    /\ [][ \A id \in DOMAIN formData \cap DOMAIN formData' :
              formData'[id].project_id # formData[id].project_id =>
                  formData'[id].task_id = "" ]_vars

\* The card of the stored row (project p1, task t1) was given project p2 and saved:
\* the update awaiting the backend carries p2 and a null task.
C22_Witness ==
    \E i \in DOMAIN writes :
        /\ writes[i].kind = "update"
        /\ writes[i].payload.project_id = "p2"
        /\ writes[i].payload.task_id = "null"
        /\ \E r \in dbEntries : r.id = writes[i].id /\ r.task_id = "t1"

\* C23: no update of time_entries is sent with an empty project_id: a card whose
\* project was cleared sends nothing when its save button is used.
C23_NoUpdateWithoutProject ==
    \A i \in DOMAIN writes :
        writes[i].kind = "update" => writes[i].payload.project_id # ""

\* C25: loading is true in every state in which a fetchData call is in flight, and
\* a step sets loading false only when it leaves no fetchData call in flight.
C25_LoadingWhileFetching ==
    /\ [](fetches # << >> => loading)
    /\ [][ (loading /\ ~loading') => fetches' = << >> ]_vars

\* C26: the cancel button of a card discards what was typed: after it the card's
\* form holds its entry's project, task, start time, end time and description,
\* which is what the next edit of that row then shows.
C26_CancelDiscards ==
    [][ \A id \in Cards :
           CardCancel(id) => formData'[id] = initialFormData(cardEntry(id)) ]_vars

-----------------------------------------------------------------------------
(* The specification of sign-in and navigation *)

\* App has mounted: its hook awaits getSession; one former user is stored, and the
\* provider holds no session or still holds that user's.
InitAuth ==
    /\ usersTable = { FormerUser }
    /\ linksSent = {}
    /\ session \in { "", FormerUser.email }
    /\ user = [h \in Hooks |-> NoUser]
    /\ authLoading = [h \in Hooks |-> TRUE]
    /\ signInCall = NoSignIn
    /\ lookups = << [hook |-> "App", pc |-> "getSession", email |-> ""] >>
    /\ authToast = ""
    /\ currentView = "timetracking"
    /\ InitTT
    /\ InitPj
    /\ InitCallIdle

NextAuth ==
    \/ \E i \in DOMAIN lookups : GetSessionReturns(i)
    \/ \E i \in DOMAIN lookups : ProfileReturns(i)
    \/ \E i \in DOMAIN lookups : ProfileFails(i)
    \/ \E email \in Emails : FollowLink(email)
    \/ SignOut
    \/ \E view \in Views : ViewChange(view)
    \/ \E email \in Emails, name \in Names : SignInSubmit(email, name)
    \/ AuthorizedReturns
    \/ AuthorizedFails
    \/ OtpReturns
    \/ OtpFails
    \/ UpsertReturns
    \/ UpsertFails

SpecAuth == InitAuth /\ [][NextAuth]_vars

-----------------------------------------------------------------------------
(* Claims about sign-in and navigation (under SpecAuth) *)

\* The capability set of each role.
Capabilities(role) ==
    CASE role = "user" -> {"timetracking", "projects"}
      [] role = "supervisor" -> {"timetracking", "projects", "analytics"}
      [] role = "manager" -> {"timetracking", "projects", "analytics", "management"}

\* C1: the navigation Layout renders is decided by the role of the user its hook
\* holds: user gives {timetracking, projects}, supervisor adds analytics, manager
\* adds analytics and management; no item is listed twice.
C1_NavigationByRole ==
    ("Layout" \in Mounted /\ user["Layout"] # NoUser) =>
        /\ SeqToSet(navigation(user["Layout"])) = Capabilities(user["Layout"].role)
        /\ Len(navigation(user["Layout"])) = Cardinality(Capabilities(user["Layout"].role))

\* Layout is rendered for a manager who signed in through the form.
C1_Witness ==
    /\ "Layout" \in Mounted
    /\ user["Layout"].role = "manager"
    /\ user["Layout"].email = "m@x"
    /\ Len(navigation(user["Layout"])) = 4

\* An email with no allow-list entry.
Unlisted(email) == \A a \in AuthorizedEmails : a.email # email

\* C2: signIn with an email that has no allow-list entry returns false, and while
\* that call runs no login link is sent and the users table does not change.
C2_UnlistedSignIn ==
    /\ [](signInCall.pc = "done" /\ Unlisted(signInCall.email) =>
             /\ signInCall.result = FALSE
             /\ signInCall.email \notin linksSent)
    /\ [][ (signInCall.pc # "idle" /\ Unlisted(signInCall.email)) =>
               (linksSent' = linksSent /\ usersTable' = usersTable) ]_vars

\* signIn("z@x") has returned false with the not-authorized toast; the stored users
\* row of that email is as it was.
C2_Witness ==
    /\ signInCall.pc = "done"
    /\ signInCall.email = "z@x"
    /\ signInCall.result = FALSE
    /\ authToast = "Email not authorized. Please contact your manager."
    /\ FormerUser \in usersTable
    /\ linksSent = {}

\* What App renders without a user: the landing form, and no Layout (the views are
\* rendered inside Layout only).
Landing == { "App", "AuthForm" }

\* The lookup of a sign-in event or session check ends without a users row.
ProfileLookupFails(i) ==
    \/ ProfileFails(i)
    \/ (ProfileReturns(i) /\ selectUser(usersTable, lookups[i].email).error)

\* C13: whenever App's session check has finished and its user is null, App renders
\* the landing form and not Layout with a view; that is the case right after
\* sign-out and right after a profile lookup of App's hook has failed.
C13_UnauthenticatedLanding ==
    /\ []((~authLoading["App"] /\ user["App"] = NoUser) => Mounted = Landing)
    /\ [][ SignOut => (user'["App"] = NoUser /\ Mounted' = Landing) ]_vars
    /\ [][ \A i \in DOMAIN lookups :
              (ProfileLookupFails(i) /\ lookups[i].hook = "App") =>
                  (user'["App"] = NoUser /\ Mounted' = Landing) ]_vars

\* A manager signed in and then out: the landing form is back, with the users row
\* still stored.
C13_Witness ==
    /\ authToast = "Signed out successfully"
    /\ session = ""
    /\ ~authLoading["App"]
    /\ user["App"] = NoUser
    /\ Mounted = Landing
    /\ \E r \in usersTable : r.email = "m@x"

\* The users rows that differ between the table before and after a step.
ChangedUsers == (usersTable' \ usersTable) \cup (usersTable \ usersTable')

\* C21: the users table changes only in a signIn call for an allow-listed email
\* that is at its upsert, and a users row changes only when the provider holds a
\* session for that row's email: a requested login link alone changes no row.
C21_UserOnlyAfterSession ==
    /\ [][ usersTable' # usersTable =>
              (signInCall.pc = "upsert" /\ ~Unlisted(signInCall.email)) ]_vars
    /\ [][ \A r \in ChangedUsers : session = r.email ]_vars

\* C24: whenever App renders Layout for its user, the view inside it is one of the
\* capabilities of that user's role: the analytics view is rendered only for a
\* supervisor or a manager, and the management view only for a manager.
C24_ViewWithinRole ==
    "Layout" \in Mounted =>
        /\ renderCurrentView(currentView) = "Analytics coming soon..." =>
              user["App"].role \in {"supervisor", "manager"}
        /\ renderCurrentView(currentView) = "User Management coming soon..." =>
              user["App"].role = "manager"

-----------------------------------------------------------------------------
(* Claims about the Projects page (under SpecProjects) *)

\* A text that is empty or holds white space only.
Blank(text) == \A i \in DOMAIN text : text[i] \in Whitespace

\* What a rejected submit leaves as it is: the calls in flight, the lists, the
\* tables and the forms with what they hold.
SubmitFrame ==
    UNCHANGED <<pjCalls, pjProjects, pjTasks, projectsTable, tasksTable, projectForm,
                taskForm, showNewProject, editingProject, showNewTask, selectedProject>>

\* C14: a submit of a project form whose name or client is empty or white space
\* only, or of a task form whose name is, sends nothing to the backend and leaves
\* the project and task lists and the open forms as they are; so no write in
\* flight carries such a name or client.
C14_BlankSubmitBlocked ==
    /\ [](\A i \in DOMAIN pjCalls :
             /\ pjCalls[i].kind = "saveProject" =>
                   ~Blank(pjCalls[i].payload.name) /\ ~Blank(pjCalls[i].payload.client)
             /\ pjCalls[i].kind = "saveTask" => ~Blank(pjCalls[i].payload.name))
    /\ [][ /\ \A key \in DOMAIN projectForm :
                 (/\ ProjectFormSubmit(key) \/ ProjectFormBlocked(key)
                  /\ Blank(projectForm[key].name) \/ Blank(projectForm[key].client))
                     => SubmitFrame
           /\ \A id \in DOMAIN taskForm :
                 (/\ TaskFormSubmit(id) \/ TaskFormBlocked(id)
                  /\ Blank(taskForm[id].name))
                     => SubmitFrame ]_vars

\* The new-project form was submitted with a name of white space only: the toast
\* was raised, nothing was sent and the form is open with what was typed.
C14_Witness ==
    /\ pjToast = "Please fill in all required fields"
    /\ NoProject \in DOMAIN projectForm
    /\ projectForm[NoProject].name = <<" ", "\t">>
    /\ projectForm[NoProject].client = <<"k">>
    /\ pjCalls = << >>
    /\ projectsTable = { StoredProject }
    /\ pjProjects = << StoredProject >>

\* C15: a delete of a project or task is sent only by the delete button with
\* confirm() answered yes; with confirm() answered no, nothing is sent, no
\* re-fetch is issued and the lists and tables are as they were.
C15_DeleteNeedsConfirm ==
    [][ /\ (\E id \in Listed : DeleteProjectClick(id, FALSE))
              => UNCHANGED <<pjCalls, pjProjects, pjTasks, projectsTable, tasksTable,
                             pjToast>>
        /\ (\E id \in ViewedTasks : DeleteTaskClick(id, FALSE))
              => UNCHANGED <<pjCalls, pjProjects, pjTasks, projectsTable, tasksTable,
                             pjToast>>
        /\ (/\ Len(pjCalls') = Len(pjCalls) + 1
            /\ pjCalls'[Len(pjCalls')].kind = "deleteProject")
              => \E id \in Listed : DeleteProjectClick(id, TRUE)
        /\ (/\ Len(pjCalls') = Len(pjCalls) + 1
            /\ pjCalls'[Len(pjCalls')].kind = "deleteTask")
              => \E id \in ViewedTasks : DeleteTaskClick(id, TRUE) ]_vars

\* One gesture was made on the loaded page, a delete whose confirmation was
\* declined: nothing is in flight and everything is as it was loaded.
C15_Witness ==
    /\ pjOps = 1
    /\ ~pjLoading
    /\ pjCalls = << >>
    /\ pjToast = ""
    /\ pjProjects = << StoredProject >>
    /\ pjTasks = << StoredTask >>
    /\ editingProject = NoProject
    /\ ~showNewProject
    /\ ~showNewTask
    /\ projectsTable = { StoredProject }
    /\ tasksTable = { StoredTask }

\* C27: once a project delete has succeeded and the calls it started have all
\* returned, every task the page holds belongs to a project the page holds.
C27_NoDependentsAfterDelete ==
    (pjToast = "Project deleted successfully" /\ pjCalls = << >>) =>
        \A i \in DOMAIN pjTasks :
            \E k \in DOMAIN pjProjects : pjProjects[k].id = pjTasks[i].project_id

=============================================================================
